---- MODULE Spec2Model ----
(***************************************************************************)
(* karate-cli: artifact download, runtime discovery and self-update.       *)
(*                                                                         *)
(* The filesystem is a map from paths to entries.  download_file is a      *)
(* process that suspends at every await and at every fallible filesystem   *)
(* call; the operations that the code propagates with `?` (or handles      *)
(* with or_else / if-let-Err) may fail, the best-effort removals           *)
(* (`let _ = remove_file(..)`) of a file the process owns succeed.         *)
(***************************************************************************)
EXTENDS Integers, Sequences, FiniteSets, TLC

VARIABLES fs, dl, calls, win, run, cli, runs, jre, jar, setup, call

vars == <<fs, dl, calls, win, run, cli, runs, jre, jar, setup, call>>

\* no function of the pure part of the program is being applied
NoCall == [fn |-> "none"]

(***************************************************************************)
(* Bounds                                                                  *)
(***************************************************************************)
MaxChunks == 2
MaxCalls == 2
MaxVersion == 2
MaxRuns == 2

Versions == 1..MaxVersion
Bytes == {1, 2}
DlIds == {1, 2}

(***************************************************************************)
(* Paths and filesystem entries                                            *)
(***************************************************************************)
NoFile == [kind |-> "none", data |-> <<>>, ver |-> 0, layout |-> ""]
File(d) == [kind |-> "file", data |-> d, ver |-> 0, layout |-> ""]
\* an executable of release v; layout "partial" marks an interrupted copy
Exe(v) == [kind |-> "exe", data |-> <<>>, ver |-> v, layout |-> ""]
PartialExe(v) == [kind |-> "exe", data |-> <<>>, ver |-> v, layout |-> "partial"]
\* a directory holding an unpacked archive: layout says where the binary is
Dir(l, v) == [kind |-> "dir", data |-> <<>>, ver |-> v, layout |-> l]

MkPath(d, n, v, s, e) == [dir |-> d, name |-> n, ver |-> v, suffix |-> s, ext |-> e]

\* Path::with_extension: the extension (the part after the last dot of the
\* file name) is replaced, the rest of the path is kept.
WithExtension(p, e) == [p EXCEPT !.ext = e]

\* paths.dist.join(format!("karate-{}.jar", version))
DistJar(v) == MkPath("dist", "karate-", v, "", "jar")
\* paths.cache.join(format!("karate-cli-{}.{}", version, ext))
CliArchiveOntoLive(v, windows) ==
    IF windows THEN MkPath("bin", "karate", 0, "", "exe") ELSE MkPath("bin", "karate", 0, "", "")
CliArchive(v, windows) ==
    IF windows THEN MkPath("cache", "karate-cli-", v, "", "zip")
    ELSE MkPath("cache", "karate-cli-", v, ".tar", "gz")

\* std::env::current_exe().canonicalize(): karate, or karate.exe on Windows
CurrentExe(windows) ==
    IF windows THEN MkPath("bin", "karate", 0, "", "exe") ELSE MkPath("bin", "karate", 0, "", "")
\* paths.cache.join(format!("karate-cli-{}-extract", version))
ExtractDir(v) == MkPath("cache", "karate-cli-", v, "-extract", "")
\* current_exe.with_extension("old")
BackupPath(exe) == WithExtension(exe, "old")

DlDests == {DistJar(1), CliArchive(1, FALSE)}
\* a destination next to the JAR that differs from it in the extension only
DistZip(v) == MkPath("dist", "karate-", v, "", "zip")
\* the destinations of two calls in flight at once
PairDests == {DistJar(1), DistJar(2), DistZip(1)}

TempPathSame(dest) == dest
\* let temp_path = dest.with_extension("tmp");
TempPath(dest) == WithExtension(dest, "tmp")

BasePaths ==
    DlDests \cup {CurrentExe(w) : w \in BOOLEAN} \cup {BackupPath(CurrentExe(w)) : w \in BOOLEAN}
            \cup {CliArchive(v, w) : v \in Versions, w \in BOOLEAN}
            \cup {ExtractDir(v) : v \in Versions}
            \cup {DistJar(v) : v \in Versions}
            \cup {MkPath("cache", "jre-", 0, ".tar", "gz")}
            \cup PairDests
AllPaths == BasePaths \cup {WithExtension(p, "tmp") : p \in BasePaths}

(***************************************************************************)
(* SHA-256 and hex encoding                                                *)
(***************************************************************************)
HexLower == <<"0","1","2","3","4","5","6","7","8","9","a","b","c","d","e","f">>
HexUpper == <<"0","1","2","3","4","5","6","7","8","9","A","B","C","D","E","F">>

RECURSIVE Encode(_)
Encode(data) ==
    IF data = <<>> THEN 1 ELSE Encode(SubSeq(data, 1, Len(data) - 1)) * 3 + data[Len(data)]

\* Sha256::digest: an 8-bit stand-in, injective on the contents the model writes.
Sha256(data) == (Encode(data) * 37 + 171) % 256

\* hex::encode: lower-case hexadecimal digits
HexEncode(n) == <<HexLower[(n \div 16) + 1], HexLower[(n % 16) + 1]>>
HexEncodeUpper(n) == <<HexUpper[(n \div 16) + 1], HexUpper[(n % 16) + 1]>>

ToLowerChar(c) ==
    CASE c = "A" -> "a" [] c = "B" -> "b" [] c = "C" -> "c"
      [] c = "D" -> "d" [] c = "E" -> "e" [] c = "F" -> "f" [] OTHER -> c
\* str::to_lowercase
ToLowercase(s) == [i \in 1..Len(s) |-> ToLowerChar(s[i])]

ChecksumMatchesExact(actual, expected) == actual = expected
\* if actual != expected.to_lowercase() { mismatch }
ChecksumMatches(actual, expected) == actual = ToLowercase(expected)

(***************************************************************************)
(* Inputs of download_file                                                 *)
(***************************************************************************)
RECURSIVE SeqsUpTo(_, _)
SeqsUpTo(S, n) ==
    IF n = 0 THEN {<<>>}
    ELSE LET shorter == SeqsUpTo(S, n - 1)
         IN shorter \cup {Append(s, b) : s \in {t \in shorter : Len(t) = n - 1}, b \in S}

Streams == SeqsUpTo(Bytes, MaxChunks)

None == <<>>
PublishedData == <<1>>
\* the bodies a server answers with: anything for a direct call, one of the
\* published CLI archives (the one asked for or another) for the self-update
ServedStreams(caller) ==
    IF caller = "cli" THEN {<<1>>, <<2>>, <<1, 1>>}
    ELSE IF caller = "jar" THEN {PublishedData, <<2>>}
    ELSE IF caller = "jre" THEN {PublishedData}
    ELSE IF caller \in {"alone", "concurrent"} THEN {PublishedData, <<2, 1>>}
    ELSE Streams
\* checksums a manifest may carry: the digest of one published artifact, in
\* either letter case
ExpectedChoices == {None, HexEncode(Sha256(PublishedData)), HexEncodeUpper(Sha256(PublishedData))}

DlIdle ==
    [pc |-> "idle", dest |-> DistJar(1), temp |-> DistJar(1), expected |-> None,
     stream |-> <<>>, recv |-> 0, offset |-> 0, hashed |-> <<>>, complete |-> FALSE,
     flushed |-> FALSE,
     result |-> "none", pre |-> NoFile, caller |-> "none"]

WriteAtFront(data, off, b) == <<b>> \o data
\* file.write_all(&chunk) on a handle positioned at `off`: bytes past the end
\* of the file leave a hole of zero bytes
WriteAt(data, off, b) ==
    [i \in 1..(IF off + 1 > Len(data) THEN off + 1 ELSE Len(data)) |->
        IF i = off + 1 THEN b ELSE IF i <= Len(data) THEN data[i] ELSE 0]

(***************************************************************************)
(* download_file                                                           *)
(***************************************************************************)
DlFail(d, why) == dl' = [dl EXCEPT ![d].pc = "done", ![d].result = why]

\* a caller enters download_file(url, dest, expected_sha256)
DlEnter(d, dest, expected, caller) ==
    dl' = [dl EXCEPT ![d] = [DlIdle EXCEPT !.pc = "request", !.dest = dest,
                                           !.temp = TempPath(dest),
                                           !.expected = expected,
                                           !.pre = fs[dest], !.caller = caller]]

\* client.get(url).send().await and the status check
DlRequest(d) ==
    /\ dl[d].pc = "request"
    /\ \/ DlFail(d, "ErrSend")
       \/ DlFail(d, "ErrHttp")
       \/ \E s \in ServedStreams(dl[d].caller) :
             dl' = [dl EXCEPT ![d].pc = "mkdir", ![d].stream = s]
    /\ UNCHANGED <<fs, calls, win, run, cli, runs, jre, jar, setup, call>>

\* std::fs::create_dir_all(parent)?
DlCreateDirAll(d) ==
    /\ dl[d].pc = "mkdir"
    /\ \/ DlFail(d, "ErrMkdir")
       \/ dl' = [dl EXCEPT ![d].pc = "create"]
    /\ UNCHANGED <<fs, calls, win, run, cli, runs, jre, jar, setup, call>>

\* tokio::fs::File::create(&temp_path): creates or truncates
DlCreateTemp(d) ==
    /\ dl[d].pc = "create"
    /\ \/ DlFail(d, "ErrCreate") /\ UNCHANGED fs
       \/ /\ fs' = [fs EXCEPT ![dl[d].temp] = File(<<>>)]
          /\ dl' = [dl EXCEPT ![d].pc = "stream", ![d].offset = 0]
    /\ UNCHANGED <<calls, win, run, cli, runs, jre, jar, setup, call>>

\* one turn of `while let Some(chunk) = stream.next().await`
DlNextChunk(d) ==
    /\ dl[d].pc = "stream"
    /\ \/ DlFail(d, "ErrChunk") /\ UNCHANGED fs
       \/ /\ dl[d].recv < Len(dl[d].stream)
          /\ \/ DlFail(d, "ErrWrite") /\ UNCHANGED fs
             \/ LET b == dl[d].stream[dl[d].recv + 1] IN
                /\ fs' = [fs EXCEPT ![dl[d].temp] =
                            IF @.kind = "file" THEN File(WriteAt(@.data, dl[d].offset, b))
                            ELSE @]
                /\ dl' = [dl EXCEPT ![d].recv = @ + 1, ![d].offset = @ + 1,
                                    ![d].hashed = Append(@, b)]
       \/ /\ dl[d].recv = Len(dl[d].stream)
          /\ dl' = [dl EXCEPT ![d].pc = "flush", ![d].complete = TRUE]
          /\ UNCHANGED fs
    /\ UNCHANGED <<calls, win, run, cli, runs, jre, jar, setup, call>>

\* file.flush().await?; drop(file)
DlFlush(d) ==
    /\ dl[d].pc = "flush"
    /\ \/ DlFail(d, "ErrFlush")
       \/ dl' = [dl EXCEPT ![d].pc = "verify", ![d].flushed = TRUE]
    /\ UNCHANGED <<fs, calls, win, run, cli, runs, jre, jar, setup, call>>

MismatchCleanupDest(fsys, temp, dest) == [fsys EXCEPT ![dest] = NoFile]
MismatchCleanupNone(fsys, temp, dest) == fsys
\* let _ = std::fs::remove_file(&temp_path);
MismatchCleanup(fsys, temp, dest) == [fsys EXCEPT ![temp] = NoFile]

\* if let Some(expected) = expected_sha256 { ... }
DlVerify(d) ==
    /\ dl[d].pc = "verify"
    /\ IF dl[d].expected # None
          /\ ~ChecksumMatches(HexEncode(Sha256(dl[d].hashed)), dl[d].expected)
       THEN /\ fs' = MismatchCleanup(fs, dl[d].temp, dl[d].dest)
            /\ DlFail(d, "ChecksumMismatch")
       ELSE /\ dl' = [dl EXCEPT ![d].pc = "rename"]
            /\ UNCHANGED fs
    /\ UNCHANGED <<calls, win, run, cli, runs, jre, jar, setup, call>>

RenameCopy(fsys, from, to) ==
    IF fsys[from] = NoFile THEN fsys ELSE [fsys EXCEPT ![to] = fsys[from]]
\* std::fs::rename(from, to), successful: `to` is replaced, `from` is gone
Rename(fsys, from, to) ==
    IF from = to \/ fsys[from] = NoFile THEN fsys
    ELSE [fsys EXCEPT ![to] = fsys[from], ![from] = NoFile]

\* std::fs::rename(&temp_path, dest)?
DlRename(d) ==
    /\ dl[d].pc = "rename"
    /\ \/ DlFail(d, "ErrRename") /\ UNCHANGED fs
       \/ /\ fs[dl[d].temp] # NoFile
          /\ fs' = Rename(fs, dl[d].temp, dl[d].dest)
          /\ dl' = [dl EXCEPT ![d].pc = "done", ![d].result = "Ok"]
    /\ UNCHANGED <<calls, win, run, cli, runs, jre, jar, setup, call>>

DlStep(d) ==
    \/ DlRequest(d)
    \/ DlCreateDirAll(d)
    \/ DlCreateTemp(d)
    \/ DlNextChunk(d)
    \/ DlFlush(d)
    \/ DlVerify(d)
    \/ DlRename(d)

(***************************************************************************)
(* Runtime discovery (jre.rs).  A string is a sequence of tokens: a digit, *)
(* '.', '-', '+' and '"' are tokens of their own, a run of other           *)
(* characters is one token.                                                *)
(***************************************************************************)
MinJavaVersion == 21
MaxU8 == 255
MaxManaged == 2

Some(x) == <<x>>

Digits == <<"0", "1", "2", "3", "4", "5", "6", "7", "8", "9">>
IsDigit(c) == \E i \in 1..10 : Digits[i] = c
DigitVal(c) == (CHOOSE i \in 1..10 : Digits[i] = c) - 1
RECURSIVE DecimalValue(_)
DecimalValue(s) ==
    IF s = <<>> THEN 0
    ELSE 10 * DecimalValue(SubSeq(s, 1, Len(s) - 1)) + DigitVal(s[Len(s)])

\* str::parse::<u8>(): an optional '+', then one or more digits, at most 255
ParseU8(s) ==
    LET digits == IF s # <<>> /\ s[1] = "+" THEN Tail(s) ELSE s IN
    IF digits = <<>> \/ \E i \in 1..Len(digits) : ~IsDigit(digits[i]) THEN None
    ELSE IF DecimalValue(digits) > MaxU8 THEN None
    ELSE Some(DecimalValue(digits))

\* str::find(c): the first position of c, 0 when there is none
Find(s, c) ==
    IF \E i \in 1..Len(s) : s[i] = c
    THEN CHOOSE i \in 1..Len(s) : s[i] = c /\ \A j \in 1..(i - 1) : s[j] # c
    ELSE 0

\* str::split(sep)
RECURSIVE Split(_, _)
Split(s, sep) ==
    IF Find(s, sep) = 0 THEN <<s>>
    ELSE <<SubSeq(s, 1, Find(s, sep) - 1)>> \o Split(SubSeq(s, Find(s, sep) + 1, Len(s)), sep)

\* str::splitn(2, sep)
SplitN2(s, sep) ==
    IF Find(s, sep) = 0 THEN <<s>>
    ELSE <<SubSeq(s, 1, Find(s, sep) - 1), SubSeq(s, Find(s, sep) + 1, Len(s))>>

ParseMajorVersionNoLegacy(version) == ParseU8(Split(version, ".")[1])
\* parse_major_version: "21.0.1" -> 21, "1.8.0_301" -> 8
ParseMajorVersion(version) ==
    LET parts == Split(version, ".")
        major == ParseU8(parts[1]) IN
    IF major = None THEN None
    ELSE IF major[1] = 1 THEN (IF Len(parts) >= 2 THEN ParseU8(parts[2]) ELSE None)
    ELSE major

\* extract_version_from_line: what stands between the first two quotes
ExtractVersionFromLine(line) ==
    LET start == Find(line, "\"")
        rest == SubSeq(line, start + 1, Len(line)) IN
    IF start = 0 THEN None
    ELSE IF Find(rest, "\"") = 0 THEN None
    ELSE Some(SubSeq(rest, 1, Find(rest, "\"") - 1))

\* an executable file: whether it exists, whether `java -version` can be
\* launched, and the lines it then prints to stderr
NoJava == [exists |-> FALSE, launch |-> FALSE, lines |-> <<>>]
Line21 == <<"openjdk version ", "\"", "2", "1", ".", "0", ".", "1", "\"", " 2023-10-17">>
Line17 == <<"openjdk version ", "\"", "1", "7", ".", "0", ".", "2", "\"">>
Line8 == <<"java version ", "\"", "1", ".", "8", ".", "0_301", "\"">>
LineBare == <<"openjdk ", "2", "1">>
JavaProbes ==
    {[exists |-> TRUE, launch |-> FALSE, lines |-> <<>>]}
    \cup [exists : {TRUE}, launch : {TRUE}, lines : {<<Line21>>, <<Line17>>, <<Line8>>, <<LineBare>>}]

\* parse_java_version: launch, take the first line of stderr, the quoted
\* version in it and its major version
ParseJavaVersion(java) ==
    IF ~java.launch THEN None
    ELSE IF java.lines = <<>> THEN None
    ELSE LET version == ExtractVersionFromLine(java.lines[1]) IN
         IF version = None THEN None
         ELSE LET major == ParseMajorVersion(version[1]) IN
              IF major = None THEN None
              ELSE Some([version |-> version[1], major |-> major[1]])

\* Platform::detect() of the build, and Platform::manifest_key
HostPlatforms == {[os |-> "Linux", arch |-> "X64"], [os |-> "MacOS", arch |-> "Aarch64"]}
ManifestKey(platform) ==
    <<CASE platform.os = "MacOS" -> "macos"
        [] platform.os = "Linux" -> "linux"
        [] platform.os = "Windows" -> "windows",
      "-",
      CASE platform.arch = "X64" -> "x64"
        [] platform.arch = "Aarch64" -> "aarch64">>

\* normalize_platform
NormalizePlatform(justj_platform) ==
    CASE justj_platform = <<"macosx", "-", "aarch64">> -> <<"macos", "-", "aarch64">>
      [] justj_platform = <<"macosx", "-", "x86_64">> -> <<"macos", "-", "x64">>
      [] justj_platform = <<"linux", "-", "x86_64">> -> <<"linux", "-", "x64">>
      [] justj_platform = <<"linux", "-", "aarch64">> -> <<"linux", "-", "aarch64">>
      [] justj_platform = <<"win32", "-", "x86_64">> -> <<"windows", "-", "x64">>
      [] OTHER -> justj_platform

ParseJreDirNameRaw(name) ==
    LET parts == SplitN2(name, "-") IN
    IF Len(parts) = 2 THEN Some([version |-> parts[1], platform |-> parts[2]]) ELSE None
\* parse_jre_dir_name
ParseJreDirName(name) ==
    LET parts == SplitN2(name, "-") IN
    IF Len(parts) = 2 THEN Some([version |-> parts[1], platform |-> NormalizePlatform(parts[2])])
    ELSE None

\* what the runtime directory can hold: an entry has a name, is a directory
\* or not, and find_java_executable finds an executable under it or not
ManagedNames ==
    {<<"2", "1", ".", "0", ".", "9", "-", "linux", "-", "x86_64">>,
     <<"1", "7", ".", "0", ".", "2", "-", "linux", "-", "x64">>,
     <<"2", "1", ".", "0", ".", "9", "-", "macosx", "-", "aarch64">>,
     <<"ea", "-", "linux", "-", "x64">>,
     <<"tmp">>}
ManagedJava == {NoJava, [exists |-> TRUE, launch |-> FALSE, lines |-> <<>>],
                [exists |-> TRUE, launch |-> TRUE, lines |-> <<Line21>>],
                [exists |-> TRUE, launch |-> TRUE, lines |-> <<LineBare>>]}
ManagedEntries ==
    [name : ManagedNames, isDir : {TRUE}, java : ManagedJava]
    \cup [name : ManagedNames, isDir : {FALSE}, java : {NoJava}]

\* the listings read_dir can give, in its iteration order
Listings ==
    {l \in SeqsUpTo(ManagedEntries, MaxManaged) :
        \A i, j \in 1..Len(l) : i # j => l[i].name # l[j].name}

JreDirStates ==
    {[state |-> "absent", entries |-> <<>>]}
    \cup [state : {"readable", "unreadable"}, entries : Listings]
JavaHomeStates ==
    {[set |-> FALSE, java |-> NoJava]} \cup [set : {TRUE}, java : {NoJava} \cup JavaProbes]
PathStates ==
    {[found |-> FALSE, java |-> NoJava]} \cup [found : {TRUE}, java : JavaProbes]
JreEnvs ==
    [platform : HostPlatforms, jreDir : JreDirStates, javaHome : JavaHomeStates,
     path : PathStates]

InstalledJre(version, platform, java, source, major) ==
    [version |-> version, platform |-> platform, java |-> java, source |-> source,
     major |-> major]

\* list_installed_jres: the entries that are directories named
\* <version>-<platform> with a java executable, in iteration order
Listed(e) == e.isDir /\ ParseJreDirName(e.name) # None /\ e.java.exists
ManagedJre(e) ==
    LET parsed == ParseJreDirName(e.name)[1] IN
    InstalledJre(parsed.version, parsed.platform, e.java, "Managed",
                 ParseMajorVersion(parsed.version))
ListInstalledJres(dir) ==
    IF dir.state = "absent" THEN [ok |-> TRUE, jres |-> <<>>]
    ELSE IF dir.state = "unreadable" THEN [ok |-> FALSE, jres |-> <<>>]
    ELSE LET kept == SelectSeq(dir.entries, Listed) IN
         [ok |-> TRUE, jres |-> [i \in 1..Len(kept) |-> ManagedJre(kept[i])]]

IsValidAboveFloor(j) ==
    j.java.exists /\ j.java.launch /\ j.major # None /\ j.major[1] >= MinJavaVersion
\* self.java_executable.exists() && self.check_version().is_ok()
IsValid(j) == j.java.exists /\ j.java.launch

\* self.major_version.map(|v| v >= MIN_JAVA_VERSION).unwrap_or(false)
MeetsMinimumVersion(j) == j.major # None /\ j.major[1] >= MinJavaVersion

\* check_java_home
CheckJavaHome(home, platform) ==
    IF ~home.java.exists THEN None
    ELSE LET parsed == ParseJavaVersion(home.java) IN
         IF parsed = None THEN None
         ELSE Some(InstalledJre(parsed[1].version, ManifestKey(platform), home.java,
                                "JavaHome", Some(parsed[1].major)))

\* check_java_on_path
CheckJavaOnPath(path, platform) ==
    IF ~path.found THEN None
    ELSE LET parsed == ParseJavaVersion(path.java) IN
         IF parsed = None THEN None
         ELSE Some(InstalledJre(parsed[1].version, ManifestKey(platform), path.java,
                                "Path", Some(parsed[1].major)))

\* find_system_jre: the JAVA_HOME candidate if there is one, else the one on
\* PATH
FindSystemJre(env) ==
    LET home == IF env.javaHome.set THEN CheckJavaHome(env.javaHome, env.platform) ELSE None IN
    IF home # None THEN home ELSE CheckJavaOnPath(env.path, env.platform)

JreIdle ==
    [pc |-> "idle", jres |-> <<>>, idx |-> 0, result |-> "none", found |-> None,
     call |-> 1, prev |-> [result |-> "none", found |-> None], old |-> <<>>,
     env |-> [platform |-> [os |-> "Linux", arch |-> "X64"],
              jreDir |-> [state |-> "absent", entries |-> <<>>],
              javaHome |-> [set |-> FALSE, java |-> NoJava],
              path |-> [found |-> FALSE, java |-> NoJava]]]

JreReturn(result, found) == jre' = [jre EXCEPT !.pc = "done", !.result = result, !.found = found]

\* find_active_jre is called: Platform::detect()?
FindActiveJre ==
    /\ jre.pc = "idle"
    /\ jre' = [jre EXCEPT !.pc = "list"]
    /\ UNCHANGED <<fs, dl, calls, win, run, cli, runs, jar, setup, call>>

\* let jres = list_installed_jres()?;
JreListInstalled ==
    /\ jre.pc = "list"
    /\ LET listed == ListInstalledJres(jre.env.jreDir) IN
       IF ~listed.ok THEN JreReturn("Err", None)
       ELSE jre' = [jre EXCEPT !.pc = "managed", !.jres = listed.jres, !.idx = 1]
    /\ UNCHANGED <<fs, dl, calls, win, run, cli, runs, jar, setup, call>>

\* for jre in jres { if jre.platform == platform.manifest_key() && jre.is_valid() {..} }
JreNextManaged ==
    /\ jre.pc = "managed"
    /\ jre.idx <= Len(jre.jres)
    /\ LET j == jre.jres[jre.idx] IN
       IF j.platform = ManifestKey(jre.env.platform) /\ IsValid(j)
       THEN JreReturn("Some", Some(j))
       ELSE jre' = [jre EXCEPT !.idx = @ + 1]
    /\ UNCHANGED <<fs, dl, calls, win, run, cli, runs, jar, setup, call>>

\* if let Some(system_jre) = find_system_jre()? { if system_jre.meets_minimum_version() {..} }
JreFallBackToSystem ==
    /\ jre.pc = "managed"
    /\ jre.idx > Len(jre.jres)
    /\ LET system_jre == FindSystemJre(jre.env) IN
       IF system_jre # None /\ MeetsMinimumVersion(system_jre[1])
       THEN JreReturn("Some", system_jre)
       ELSE JreReturn("None", None)
    /\ UNCHANGED <<fs, dl, calls, win, run, cli, runs, jar, setup, call>>

(***************************************************************************)
(* The release manifest (fetch_manifest and the lookups on it)             *)
(***************************************************************************)
NoVersion == 0

\* the archive a release publishes, by its bytes: where the binary lies
\* inside it, or that it cannot be unpacked
ArchiveLayout(data) ==
    CASE data = <<1>> -> "top"
      [] data = <<2>> -> "nested"
      [] data = <<1, 1>> -> "none"
      [] OTHER -> "corrupt"

ManifestShas ==
    {HexEncode(Sha256(<<1>>)), HexEncode(Sha256(<<2>>)), HexEncode(Sha256(<<1, 1>>))}

\* what one fetch can return: the channel's latest karate-cli version (or
\* none), whether that version has an artifact for this platform, its sha256
Manifests ==
    {[cliLatest |-> NoVersion, cliHas |-> FALSE, cliSha |-> None]}
    \cup [cliLatest : Versions, cliHas : {FALSE}, cliSha : {None}]
    \cup [cliLatest : Versions, cliHas : {TRUE}, cliSha : ManifestShas]

\* manifest.get_latest_version("karate-cli", channel)
GetLatestVersion(m) == m.cliLatest
\* manifest.get_platform_download("karate-cli", version, platform)
GetPlatformDownload(m, version) ==
    IF m.cliHas /\ version = m.cliLatest THEN m.cliSha ELSE None

(***************************************************************************)
(* update_cli_binary                                                       *)
(***************************************************************************)
CliIdle ==
    [pc |-> "idle", version |-> 0, sha |-> None, newBinary |-> "none", result |-> "none",
     failedAt |-> "none", origLive |-> NoFile, backup |-> "n/a", swapRename |-> "n/a",
     swapCopy |-> "n/a", rollback |-> "n/a", perms |-> "n/a"]

Live == CurrentExe(win)
Backup == BackupPath(Live)

CliFailGoesOn(step) == cli' = [cli EXCEPT !.pc = "backup", !.failedAt = step]
\* `?` and `return Err(..)`: the function returns at the failing step
CliFail(step) == cli' = [cli EXCEPT !.pc = "done", !.result = "Err", !.failedAt = step]

\* run calls update_cli_binary(paths, platform, &status.latest_version, manifest)
CliEnter(version) ==
    cli' = [CliIdle EXCEPT !.pc = "lookup", !.version = version, !.origLive = fs[Live]]

\* manifest.get_platform_download(..).ok_or_else(..)?, then the call of
\* download_file(url, &archive_path, Some(sha256))
CliLookup ==
    /\ cli.pc = "lookup"
    /\ LET sha == GetPlatformDownload(run.manifest, cli.version) IN
       IF sha = None
       THEN CliFail("lookup") /\ UNCHANGED dl
       ELSE /\ cli' = [cli EXCEPT !.pc = "download", !.sha = sha]
            /\ DlEnter(1, CliArchive(cli.version, win), sha, "cli")
    /\ UNCHANGED <<fs, calls, win, run, runs, jre, jar, setup, call>>

\* download_file(..).await?
CliDownloaded ==
    /\ cli.pc = "download"
    /\ dl[1].pc = "done" /\ dl[1].caller = "cli"
    /\ IF dl[1].result = "Ok" THEN cli' = [cli EXCEPT !.pc = "rmstage"]
       ELSE CliFail("download")
    /\ dl' = [dl EXCEPT ![1] = DlIdle]
    /\ UNCHANGED <<fs, calls, win, run, runs, jre, jar, setup, call>>

\* if extract_dir.exists() { std::fs::remove_dir_all(&extract_dir)?; }
CliRemoveStaleStaging ==
    /\ cli.pc = "rmstage"
    /\ IF fs[ExtractDir(cli.version)] # NoFile
       THEN \/ CliFail("rmstage") /\ UNCHANGED fs
            \/ /\ fs' = [fs EXCEPT ![ExtractDir(cli.version)] = NoFile]
               /\ cli' = [cli EXCEPT !.pc = "extract"]
       ELSE cli' = [cli EXCEPT !.pc = "extract"] /\ UNCHANGED fs
    /\ UNCHANGED <<dl, calls, win, run, runs, jre, jar, setup, call>>

\* extract_zip / extract_tar_gz(&archive_path, &extract_dir)?
CliExtract ==
    /\ cli.pc = "extract"
    /\ LET layout == ArchiveLayout(fs[CliArchive(cli.version, win)].data)
           stage == ExtractDir(cli.version) IN
       \/ /\ layout # "corrupt"
          /\ fs' = [fs EXCEPT ![stage] = Dir(layout, cli.version)]
          /\ cli' = [cli EXCEPT !.pc = "locate"]
       \/ \* the archive cannot be opened or decoded, or an entry cannot be
          \* written: what was unpacked so far stays
          /\ \E left \in {NoFile, Dir("partial", cli.version)} : fs' = [fs EXCEPT ![stage] = left]
          /\ CliFail("extract")
    /\ UNCHANGED <<dl, calls, win, run, runs, jre, jar, setup, call>>

\* find_binary_in_dir: the top level, then one level deep
FindBinaryInDir(entry) ==
    IF entry.kind = "dir" /\ entry.layout = "top" THEN "top"
    ELSE IF entry.kind = "dir" /\ entry.layout = "nested" THEN "nested"
    ELSE "none"

\* let new_binary = find_binary_in_dir(&extract_dir, binary_name)?
CliLocate ==
    /\ cli.pc = "locate"
    /\ LET found == FindBinaryInDir(fs[ExtractDir(cli.version)]) IN
       IF found = "none" THEN CliFail("locate")
       ELSE cli' = [cli EXCEPT !.pc = "resolve", !.newBinary = found]
    /\ UNCHANGED <<fs, dl, calls, win, run, runs, jre, jar, setup, call>>

\* std::env::current_exe()?.canonicalize()?
CliResolveExe ==
    /\ cli.pc = "resolve"
    /\ \/ CliFail("resolve")
       \/ cli' = [cli EXCEPT !.pc = "backup"]
    /\ UNCHANGED <<fs, dl, calls, win, run, runs, jre, jar, setup, call>>

\* let _ = remove_file(&backup_path); rename(&current_exe, &backup_path)?
CliBackupCurrent ==
    /\ cli.pc = "backup"
    /\ LET cleared == [fs EXCEPT ![Backup] = NoFile] IN
       \/ /\ fs' = cleared
          /\ cli' = [cli EXCEPT !.pc = "done", !.result = "Err", !.failedAt = "backup",
                                !.backup = "fail"]
       \/ /\ fs' = Rename(cleared, Live, Backup)
          /\ cli' = [cli EXCEPT !.pc = "swap", !.backup = "ok"]
    /\ UNCHANGED <<dl, calls, win, run, runs, jre, jar, setup, call>>

\* rename(&new_binary, &current_exe).or_else(|_| copy(&new_binary, &current_exe))
CliSwapIn ==
    /\ cli.pc = "swap"
    /\ LET stage == ExtractDir(cli.version) IN
       \/ /\ fs' = [fs EXCEPT ![Live] = Exe(cli.version), ![stage] = Dir("moved", cli.version)]
          /\ cli' = [cli EXCEPT !.pc = "perms", !.swapRename = "ok"]
       \/ /\ fs' = [fs EXCEPT ![Live] = Exe(cli.version)]
          /\ cli' = [cli EXCEPT !.pc = "perms", !.swapRename = "fail", !.swapCopy = "ok"]
       \/ \* the copy fails before or after it has created the target file
          /\ \E left \in {fs[Live], PartialExe(cli.version)} : fs' = [fs EXCEPT ![Live] = left]
          /\ cli' = [cli EXCEPT !.pc = "rollback", !.swapRename = "fail", !.swapCopy = "fail"]
    /\ UNCHANGED <<dl, calls, win, run, runs, jre, jar, setup, call>>

\* let _ = std::fs::rename(&backup_path, &current_exe); the result is dropped
RollbackAttempt(fsys, from, to, ok) == IF ok THEN Rename(fsys, from, to) ELSE fsys

\* if let Err(e) = result { ...; return Err(e.into()); }
CliRollback ==
    /\ cli.pc = "rollback"
    /\ \E ok \in BOOLEAN :
          /\ fs' = RollbackAttempt(fs, Backup, Live, ok)
          /\ cli' = [cli EXCEPT !.pc = "done", !.result = "Err", !.failedAt = "swap",
                                !.rollback = IF ok THEN "ok" ELSE "fail"]
    /\ UNCHANGED <<dl, calls, win, run, runs, jre, jar, setup, call>>

\* #[cfg(unix)] std::fs::set_permissions(&current_exe, 0o755)?
CliSetPermissions ==
    /\ cli.pc = "perms"
    /\ IF win THEN cli' = [cli EXCEPT !.pc = "cleanup"]
       ELSE \/ cli' = [cli EXCEPT !.pc = "done", !.result = "Err", !.failedAt = "perms",
                                  !.perms = "fail"]
            \/ cli' = [cli EXCEPT !.pc = "cleanup", !.perms = "ok"]
    /\ UNCHANGED <<fs, dl, calls, win, run, runs, jre, jar, setup, call>>

CleanupKeepsBackup(fsys, version, w) ==
    [fsys EXCEPT ![CliArchive(version, w)] = NoFile,
                 ![ExtractDir(version)] = NoFile]
\* let _ = remove_file(&archive_path); let _ = remove_dir_all(&extract_dir);
\* #[cfg(unix)] { let _ = remove_file(&backup_path); }
Cleanup(fsys, version, w) ==
    [fsys EXCEPT ![CliArchive(version, w)] = NoFile,
                 ![ExtractDir(version)] = NoFile,
                 ![BackupPath(CurrentExe(w))] = IF w THEN @ ELSE NoFile]

\* remove the archive and the staging directory; #[cfg(unix)] remove the backup
CliCleanup ==
    /\ cli.pc = "cleanup"
    /\ fs' = Cleanup(fs, cli.version, win)
    /\ cli' = [cli EXCEPT !.pc = "done", !.result = "Ok"]
    /\ UNCHANGED <<dl, calls, win, run, runs, jre, jar, setup, call>>

(***************************************************************************)
(* Installing the application JAR: setup's download_karate_jar and         *)
(* update's update_karate_jar                                              *)
(***************************************************************************)
\* default_version(): the configuration pins no version ("latest")
DefaultVersion == NoVersion

\* the JAR part of a fetched manifest: the channel's latest karate version
\* (or none) and the versions that have a download entry
JarVersionSets == {{}, {1}, Versions}
JarManifests == [jarLatest : {NoVersion} \cup Versions, jarVersions : JarVersionSets]
JarSha == HexEncode(Sha256(PublishedData))
\* manifest.get_latest_version("karate", channel)
GetLatestJarVersion(m) == m.jarLatest
\* manifest.get_jar_download("karate", version)
GetJarDownload(m, version) == IF version \in m.jarVersions THEN JarSha ELSE None

NoError == [kind |-> "none", version |-> NoVersion, platform |-> ""]
JarIdle ==
    [pc |-> "idle", flow |-> "none", pin |-> DefaultVersion, override |-> NoVersion,
     manifest |-> None, version |-> NoVersion, sha |-> None, result |-> "none",
     failedAt |-> "none", error |-> NoError, requests |-> 0, fsAtStart |-> <<>>]

\* the karate-*.jar files in dist/
InstalledJars(fsys) == {v \in Versions : fsys[DistJar(v)] # NoFile}

JarFail(step, error) ==
    jar' = [jar EXCEPT !.pc = "done", !.result = "Err", !.failedAt = step, !.error = error]

\* download_karate_jar(paths, version_override, channel_override) or
\* update_karate_jar(paths, channel) is called
JarEnter(flow, override) ==
    jar' = [JarIdle EXCEPT !.pc = "fetch", !.flow = flow, !.pin = jar.pin,
                           !.override = override, !.fsAtStart = fs]

\* load_merged_config()? (setup only); fetch_manifest().await?
JarFetchManifest ==
    /\ jar.pc = "fetch"
    /\ \/ jar.flow = "setup" /\ JarFail("config", NoError)
       \/ jar' = [jar EXCEPT !.pc = "done", !.result = "Err", !.failedAt = "fetch",
                              !.requests = @ + 1]
       \/ \E m \in JarManifests :
             jar' = [jar EXCEPT !.pc = "resolve", !.manifest = m, !.requests = @ + 1]
    /\ UNCHANGED <<fs, dl, calls, win, run, cli, runs, jre, setup, call>>

\* setup.rs: CLI flag, else the pinned version if it is not "latest", else
\* the channel's latest; update.rs: the channel's latest
ResolveVersion(flow, override, pin, m) ==
    IF flow = "setup"
    THEN IF override # NoVersion THEN override
         ELSE IF pin # DefaultVersion THEN pin
         ELSE GetLatestJarVersion(m)
    ELSE GetLatestJarVersion(m)

JarResolveVersion ==
    /\ jar.pc = "resolve"
    /\ LET version == ResolveVersion(jar.flow, jar.override, jar.pin, jar.manifest) IN
       IF version = NoVersion
       THEN JarFail("resolve", [kind |-> "NoChannelVersion", version |-> NoVersion,
                                platform |-> ""])
       ELSE jar' = [jar EXCEPT !.pc = "lookup", !.version = version]
    /\ UNCHANGED <<fs, dl, calls, win, run, cli, runs, jre, setup, call>>

\* manifest.get_jar_download("karate", version).ok_or_else(..)?
JarLookup ==
    /\ jar.pc = "lookup"
    /\ LET sha == GetJarDownload(jar.manifest, jar.version) IN
       IF sha = None
       THEN JarFail("lookup", [kind |-> "NoDownload", version |-> jar.version,
                               platform |-> ""])
       ELSE jar' = [jar EXCEPT !.sha = sha,
                               !.pc = IF jar.flow = "update" THEN "removeOld" ELSE "download"]
    /\ UNCHANGED <<fs, dl, calls, win, run, cli, runs, jre, setup, call>>

RemoveJars(fsys, gone) ==
    [p \in DOMAIN fsys |-> IF \E v \in gone : p = DistJar(v) THEN NoFile ELSE fsys[p]]

\* update.rs "Remove old JAR(s) first": read_dir(&paths.dist)?, entry?, and
\* let _ = remove_file(&path) for every karate-*.jar
JarRemoveOld ==
    /\ jar.pc = "removeOld"
    /\ \/ \* the listing fails at once or at some entry
          /\ \E gone \in SUBSET InstalledJars(fs) :
                /\ gone # InstalledJars(fs) \/ gone = {}
                /\ fs' = RemoveJars(fs, gone)
          /\ JarFail("removeOld", NoError)
       \/ /\ fs' = RemoveJars(fs, InstalledJars(fs))
          /\ jar' = [jar EXCEPT !.pc = "download"]
    /\ UNCHANGED <<dl, calls, win, run, cli, runs, jre, setup, call>>

\* download_file(url, &dest, Some(sha256))
JarDownload ==
    /\ jar.pc = "download"
    /\ DlEnter(1, DistJar(jar.version), jar.sha, "jar")
    /\ jar' = [jar EXCEPT !.pc = "downloading", !.requests = @ + 1]
    /\ UNCHANGED <<fs, calls, win, run, cli, runs, jre, setup, call>>

\* download_file(..).await?; Ok(())
JarDownloaded ==
    /\ jar.pc = "downloading"
    /\ dl[1].pc = "done" /\ dl[1].caller = "jar"
    /\ IF dl[1].result = "Ok" THEN jar' = [jar EXCEPT !.pc = "done", !.result = "Ok"]
       ELSE JarFail("download", NoError)
    /\ dl' = [dl EXCEPT ![1] = DlIdle]
    /\ UNCHANGED <<fs, calls, win, run, cli, runs, jre, setup, call>>

JarStep ==
    \/ JarFetchManifest
    \/ JarResolveVersion
    \/ JarLookup
    \/ JarRemoveOld
    \/ JarDownload
    \/ JarDownloaded

(***************************************************************************)
(* commands::setup: run_setup_items, run_setup_wizard, download_jre        *)
(***************************************************************************)
\* to_justj_platform
ToJustjPlatform(platform) ==
    CASE platform = <<"macos", "-", "aarch64">> -> <<"macosx", "-", "aarch64">>
      [] platform = <<"macos", "-", "x64">> -> <<"macosx", "-", "x86_64">>
      [] platform = <<"linux", "-", "x64">> -> <<"linux", "-", "x86_64">>
      [] platform = <<"linux", "-", "aarch64">> -> <<"linux", "-", "aarch64">>
      [] platform = <<"windows", "-", "x64">> -> <<"win32", "-", "x86_64">>
      [] OTHER -> platform

\* the version label of the JustJ entry for the platform:
\* org.eclipse.justj.openjdk.hotspot.jre.full.stripped-<label>.tar.gz
JustjVersionLabel(platform) == <<"2", "1", ".", "0", ".", "9", "-">> \o ToJustjPlatform(platform)

\* paths.cache.join(format!("jre-{}.tar.gz", version_label))
JreArchive == MkPath("cache", "jre-", 0, ".tar", "gz")

SetupItems == {{"jre"}, {"jar"}, {"jre", "jar"}}
\* --karate-version: absent, or one version
SetupVersionArgs == {NoVersion, 1}
SetupIdle ==
    [pc |-> "idle", wizard |-> FALSE, items |-> {}, force |-> FALSE, override |-> NoVersion,
     invocation |-> 0, requests |-> 0, jarCalled |-> FALSE, exit |-> "none",
     firstExit |-> "none", fsAtStart |-> <<>>, jreDirAtStart |-> <<>>]

SetupEnd(code) == setup' = [setup EXCEPT !.pc = "done", !.exit = code]

\* what the runtime directory holds after the archive was unpacked into
\* jre/<label>: the entry of that name is new or replaced
WithManaged(dir, name, java) ==
    [state |-> dir.state,
     entries |-> SelectSeq(dir.entries, LAMBDA e : e.name # name)
                 \o <<[name |-> name, isDir |-> TRUE, java |-> java]>>]

\* setup::run with --all / --item (run_setup_items) or without flags
\* (run_setup_wizard)
SetupEnter(wizard, items, force, override, invocation) ==
    setup' = [SetupIdle EXCEPT !.pc = "dirs", !.wizard = wizard, !.items = items,
                               !.force = force, !.override = override,
                               !.invocation = invocation, !.firstExit = setup.exit,
                               !.fsAtStart = fs, !.jreDirAtStart = jre.env.jreDir]

SetupStart ==
    /\ setup.pc = "idle"
    /\ \/ SetupEnter(TRUE, {"jre", "jar"}, FALSE, NoVersion, 1)
       \/ \E items \in SetupItems, force \in BOOLEAN, override \in SetupVersionArgs :
             SetupEnter(FALSE, items, force, override, 1)
    /\ UNCHANGED <<fs, dl, calls, win, run, cli, runs, jre, jar, call>>

\* the same command line once more, after the first run completed
SetupAgain ==
    /\ setup.pc = "done"
    /\ setup.exit = "Success"
    /\ setup.invocation = 1
    /\ SetupEnter(setup.wizard, setup.items, setup.force, setup.override, 2)
    /\ UNCHANGED <<fs, dl, calls, win, run, cli, runs, jre, jar, call>>

\* paths.ensure_dirs()?
SetupEnsureDirs ==
    /\ setup.pc = "dirs"
    /\ \/ SetupEnd("Err") /\ UNCHANGED jre
       \/ /\ setup' = [setup EXCEPT !.pc = "jre"]
          /\ jre' = [jre EXCEPT !.env.jreDir.state = IF @ = "absent" THEN "readable" ELSE @]
    /\ UNCHANGED <<fs, dl, calls, win, run, cli, runs, jar, call>>

\* if install_jre { if !force { find_active_jre()? .. } else { download_jre } }
SetupJre ==
    /\ setup.pc = "jre"
    /\ IF "jre" \notin setup.items THEN setup' = [setup EXCEPT !.pc = "jar"] /\ UNCHANGED jre
       ELSE IF setup.force THEN setup' = [setup EXCEPT !.pc = "resolveJre"] /\ UNCHANGED jre
       ELSE /\ setup' = [setup EXCEPT !.pc = "findJre"]
            /\ jre' = [jre EXCEPT !.pc = "list", !.result = "none", !.found = None,
                                  !.jres = <<>>, !.idx = 0]
    /\ UNCHANGED <<fs, dl, calls, win, run, cli, runs, jar, call>>

\* if let Some(jre) = find_active_jre()? { already available } else { download_jre }
SetupJreFound ==
    /\ setup.pc = "findJre"
    /\ jre.pc = "done"
    /\ CASE jre.result = "Err" -> SetupEnd("Err")
         [] jre.result = "Some" -> setup' = [setup EXCEPT !.pc = "jar"]
         [] OTHER -> setup' = [setup EXCEPT !.pc = "resolveJre"]
    /\ UNCHANGED <<fs, dl, calls, win, run, cli, runs, jre, jar, call>>

\* download_jre: resolve_justj_jre(java_version, &platform_key).await?
SetupResolveJustj ==
    /\ setup.pc = "resolveJre"
    /\ \/ setup' = [setup EXCEPT !.pc = "done", !.exit = "Err", !.requests = @ + 1]
       \/ setup' = [setup EXCEPT !.pc = "downloadJre", !.requests = @ + 1]
    /\ UNCHANGED <<fs, dl, calls, win, run, cli, runs, jre, jar, call>>

\* download_file(&jre_info.download_url, &archive_path, None)
SetupDownloadJre ==
    /\ setup.pc = "downloadJre"
    /\ DlEnter(1, JreArchive, None, "jre")
    /\ setup' = [setup EXCEPT !.pc = "downloadingJre", !.requests = @ + 1]
    /\ UNCHANGED <<fs, calls, win, run, cli, runs, jre, jar, call>>

SetupJreDownloaded ==
    /\ setup.pc = "downloadingJre"
    /\ dl[1].pc = "done" /\ dl[1].caller = "jre"
    /\ IF dl[1].result = "Ok" THEN setup' = [setup EXCEPT !.pc = "extractJre"]
       ELSE SetupEnd("Err")
    /\ dl' = [dl EXCEPT ![1] = DlIdle]
    /\ UNCHANGED <<fs, calls, win, run, cli, runs, jre, jar, call>>

\* create_dir_all(&jre_dir)?; extract_tar_gz(&archive_path, &jre_dir)?;
\* let _ = remove_file(&archive_path)
SetupExtractJre ==
    /\ setup.pc = "extractJre"
    /\ LET label == JustjVersionLabel(ManifestKey(jre.env.platform)) IN
       \/ SetupEnd("Err") /\ UNCHANGED <<fs, jre, call>>
       \/ /\ SetupEnd("Err")
          /\ jre' = [jre EXCEPT !.env.jreDir = WithManaged(@, label, NoJava)]
          /\ UNCHANGED fs
       \/ /\ \E java \in ManagedJava \ {NoJava} :
                jre' = [jre EXCEPT !.env.jreDir = WithManaged(@, label, java)]
          /\ fs' = [fs EXCEPT ![JreArchive] = NoFile]
          /\ setup' = [setup EXCEPT !.pc = "jar"]
    /\ UNCHANGED <<dl, calls, win, run, cli, runs, jar, call>>

ShouldDownloadAlways(fsys, override, force) == TRUE
\* should_download: with a requested version, unless that version's JAR
\* exists; otherwise unless find_karate_jar finds some JAR; always with --force
ShouldDownload(fsys, override, force) ==
    IF override # NoVersion THEN ~(fsys[DistJar(override)] # NoFile /\ ~force)
    ELSE ~(InstalledJars(fsys) # {} /\ ~force)

\* if install_jar { if should_download { download_karate_jar(..).await? } }
SetupJar ==
    /\ setup.pc = "jar"
    /\ IF "jar" \in setup.items /\ ShouldDownload(fs, setup.override, setup.force)
       THEN /\ setup' = [setup EXCEPT !.pc = "installJar", !.jarCalled = TRUE]
            /\ JarEnter("setup", setup.override)
       ELSE SetupEnd("Success") /\ UNCHANGED jar
    /\ UNCHANGED <<fs, dl, calls, win, run, cli, runs, jre, call>>

\* download_karate_jar(..).await?; Ok(ExitCode::Success)
SetupJarReturned ==
    /\ setup.pc = "installJar"
    /\ jar.pc = "done"
    /\ SetupEnd(IF jar.result = "Ok" THEN "Success" ELSE "Err")
    /\ UNCHANGED <<fs, dl, calls, win, run, cli, runs, jre, jar, call>>

SetupStep ==
    \/ SetupStart
    \/ SetupAgain
    \/ SetupEnsureDirs
    \/ SetupJre
    \/ SetupJreFound
    \/ SetupResolveJustj
    \/ SetupDownloadJre
    \/ SetupJreDownloaded
    \/ SetupExtractJre
    \/ SetupJar
    \/ SetupJarReturned

(***************************************************************************)
(* commands::update::run                                                   *)
(***************************************************************************)
RunIdle ==
    [pc |-> "idle", command |-> "update", item |-> "", launcher |-> 0, manifest |-> None, cliLatest |-> 0,
     cliHasUpdate |-> FALSE, exit |-> "none", fsAtStart |-> <<>>,
     jarHasUpdate |-> FALSE, jreHasUpdate |-> FALSE, step |-> 0]

\* VALID_ITEMS
ValidItems == {"jar", "jre", "cli"}
\* item.to_lowercase()
ItemLower(item) == IF item = "CLI" THEN "cli" ELSE item
\* the command lines of this specification: karate update --item <item>
ItemArgs == {"cli", "CLI", "bogus"}

RunEnd(code) == run' = [run EXCEPT !.pc = "done", !.exit = code]

\* the tool is started: the running image is the executable at the live path
RunStart ==
    /\ run.pc \in {"idle", "done"}
    /\ runs < MaxRuns
    /\ fs[Live].kind = "exe" /\ fs[Live].layout # "partial"
    /\ \/ \E item \in ItemArgs :
             run' = [RunIdle EXCEPT !.pc = "items", !.item = item, !.launcher = fs[Live].ver,
                                    !.fsAtStart = fs]
       \/ run' = [RunIdle EXCEPT !.pc = "version", !.command = "version",
                                 !.launcher = fs[Live].ver, !.fsAtStart = fs]
    /\ runs' = runs + 1
    /\ cli' = CliIdle
    /\ UNCHANGED <<fs, dl, calls, win, jre, jar, setup, call>>

\* karate version: build_version_info reads dist/, ext/ and the result of
\* find_active_jre()?, print_version_info prints them; nothing is written
RunVersion ==
    /\ run.pc = "version"
    /\ IF jre.env.jreDir.state = "unreadable" THEN RunEnd("GeneralError") ELSE RunEnd("Success")
    /\ UNCHANGED <<fs, dl, calls, win, cli, runs, jre, jar, setup, call>>

\* the item name is validated; paths.ensure_dirs()?
RunItems ==
    /\ run.pc = "items"
    /\ IF ItemLower(run.item) \notin ValidItems THEN RunEnd("ConfigError")
       ELSE \/ RunEnd("Err")
            \/ run' = [run EXCEPT !.pc = "cleanupOld", !.item = ItemLower(run.item)]
    /\ UNCHANGED <<fs, dl, calls, win, cli, runs, jre, jar, setup, call>>

\* cleanup_old_binary(): if old_path.exists() { let _ = remove_file(&old_path); }
RunCleanupOldBinary ==
    /\ run.pc = "cleanupOld"
    /\ fs' = [fs EXCEPT ![Backup] = NoFile]
    /\ run' = [run EXCEPT !.pc = "manifest"]
    /\ UNCHANGED <<dl, calls, win, cli, runs, jre, jar, setup, call>>

\* load_merged_config()?; Some(fetch_manifest().await?)
RunFetchManifest ==
    /\ run.pc = "manifest"
    /\ \/ RunEnd("Err")
       \/ \E m \in Manifests : run' = [run EXCEPT !.pc = "checkCli", !.manifest = m]
    /\ UNCHANGED <<fs, dl, calls, win, cli, runs, jre, jar, setup, call>>

HasUpdateNewer(installed, latest) == latest > installed
\* let has_update = installed != latest;
HasUpdate(installed, latest) == installed # latest

\* if check_cli { ... }: the latest version, and whether it is an update
RunCheckCli ==
    /\ run.pc = "checkCli"
    /\ LET latest == GetLatestVersion(run.manifest) IN
       IF latest = NoVersion THEN RunEnd("Err")
       ELSE run' = [run EXCEPT !.pc = "decide", !.cliLatest = latest,
                               !.cliHasUpdate = HasUpdate(run.launcher, latest)]
    /\ UNCHANGED <<fs, dl, calls, win, cli, runs, jre, jar, setup, call>>

\* if !any_updates { return Ok(ExitCode::Success); }, else update_cli_binary
RunDecide ==
    /\ run.pc = "decide"
    /\ IF ~run.cliHasUpdate THEN RunEnd("Success") /\ UNCHANGED cli
       ELSE run' = [run EXCEPT !.pc = "updCli"] /\ CliEnter(run.cliLatest)
    /\ UNCHANGED <<fs, dl, calls, win, runs, jre, jar, setup, call>>

\* update_cli_binary(..).await?; Ok(ExitCode::Success)
RunCliReturned ==
    /\ run.pc = "updCli"
    /\ cli.pc = "done"
    /\ RunEnd(IF cli.result = "Ok" THEN "Success" ELSE "Err")
    /\ UNCHANGED <<fs, dl, calls, win, cli, runs, jre, jar, setup, call>>

CliStep ==
    \/ CliLookup
    \/ CliDownloaded
    \/ CliRemoveStaleStaging
    \/ CliExtract
    \/ CliLocate
    \/ CliResolveExe
    \/ CliBackupCurrent
    \/ CliSwapIn
    \/ CliRollback
    \/ CliSetPermissions
    \/ CliCleanup

RunStep ==
    \/ RunStart
    \/ RunVersion
    \/ RunItems
    \/ RunCleanupOldBinary
    \/ RunFetchManifest
    \/ RunCheckCli
    \/ RunDecide
    \/ RunCliReturned

\* an installed release on either kind of platform
InitSelfUpdate ==
    /\ win \in BOOLEAN
    /\ \E v \in Versions : fs = [p \in AllPaths |-> IF p = CurrentExe(win) THEN Exe(v) ELSE NoFile]
    /\ dl = [d \in DlIds |-> DlIdle]
    /\ calls = 0
    /\ run = RunIdle
    /\ cli = CliIdle
    /\ runs = 0
    /\ jre = JreIdle
    /\ jar = JarIdle
    /\ setup = SetupIdle
    /\ call = NoCall

NextSelfUpdate == RunStep \/ CliStep \/ DlStep(1)

SpecSelfUpdate == InitSelfUpdate /\ [][NextSelfUpdate]_vars

(***************************************************************************)
(* update_jre                                                              *)
(***************************************************************************)
UpdateJreFail == jre' = [jre EXCEPT !.pc = "updDone", !.result = "Err"]

\* update_jre(&platform, &paths) is called
UpdateJreEnter ==
    jre' = [jre EXCEPT !.pc = "updResolve", !.result = "none",
                       !.old = jre.env.jreDir.entries]

\* resolve_justj_jre(MIN_JAVA_VERSION, &platform_key).await?, then the call
\* of download_file(&jre_info.download_url, &archive_path, None)
UpdateJreResolve ==
    /\ jre.pc = "updResolve"
    /\ \/ UpdateJreFail /\ UNCHANGED dl
       \/ /\ jre' = [jre EXCEPT !.pc = "updDownload"]
          /\ DlEnter(1, JreArchive, None, "jre")
    /\ UNCHANGED <<fs, calls, win, run, cli, runs, jar, setup, call>>

\* download_file(..).await?
UpdateJreDownloaded ==
    /\ jre.pc = "updDownload"
    /\ dl[1].pc = "done" /\ dl[1].caller = "jre"
    /\ IF dl[1].result = "Ok" THEN jre' = [jre EXCEPT !.pc = "updRemoveOld"]
       ELSE UpdateJreFail
    /\ dl' = [dl EXCEPT ![1] = DlIdle]
    /\ UNCHANGED <<fs, calls, win, run, cli, runs, jar, setup, call>>

\* the listing after the first k entries have been visited: those of them
\* that are directories are removed
RemoveDirs(entries, k) ==
    LET kept == {i \in 1..Len(entries) : i > k \/ ~entries[i].isDir}
        Pos(i) == Cardinality({j \in kept : j <= i})
    IN [n \in 1..Cardinality(kept) |-> entries[CHOOSE i \in kept : Pos(i) = n]]

\* "Remove old JRE directories": if paths.jre.exists(), read_dir(&paths.jre)?,
\* entry?, and let _ = remove_dir_all(&path) for every directory
UpdateJreRemoveOld ==
    /\ jre.pc = "updRemoveOld"
    /\ LET dir == jre.env.jreDir IN
       IF dir.state = "absent" THEN jre' = [jre EXCEPT !.pc = "updExtract"]
       ELSE IF dir.state = "unreadable" THEN UpdateJreFail
       ELSE \/ \* the listing fails at once or at some entry
               \E k \in 0..Len(dir.entries) :
                  jre' = [jre EXCEPT !.pc = "updDone", !.result = "Err",
                                     !.env.jreDir.entries = RemoveDirs(dir.entries, k)]
            \/ jre' = [jre EXCEPT !.pc = "updExtract",
                                  !.env.jreDir.entries = RemoveDirs(dir.entries, Len(dir.entries))]
    /\ UNCHANGED <<fs, dl, calls, win, run, cli, runs, jar, setup, call>>

\* create_dir_all(&jre_dir)?; extract_tar_gz(&archive_path, &jre_dir)?;
\* let _ = remove_file(&archive_path); Ok(())
UpdateJreExtract ==
    /\ jre.pc = "updExtract"
    /\ LET label == JustjVersionLabel(ManifestKey(jre.env.platform))
           dir == [state |-> "readable", entries |-> jre.env.jreDir.entries] IN
       \/ UpdateJreFail /\ UNCHANGED fs
       \/ /\ jre' = [jre EXCEPT !.pc = "updDone", !.result = "Err",
                                !.env.jreDir = WithManaged(dir, label, NoJava)]
          /\ UNCHANGED fs
       \/ /\ \E java \in ManagedJava \ {NoJava} :
                jre' = [jre EXCEPT !.pc = "updDone", !.result = "Ok",
                                   !.env.jreDir = WithManaged(dir, label, java)]
          /\ fs' = [fs EXCEPT ![JreArchive] = NoFile]
    /\ UNCHANGED <<dl, calls, win, run, cli, runs, jar, setup, call>>

UpdateJreStep ==
    \/ UpdateJreResolve
    \/ UpdateJreDownloaded
    \/ UpdateJreRemoveOld
    \/ UpdateJreExtract

(***************************************************************************)
(* commands::update::run for all components: karate update --all, or      *)
(* karate update without flags (interactive)                              *)
(***************************************************************************)
UpdateOrderCliFirst == <<"cli", "jar", "jre">>
\* "Perform updates": the JAR, then the JRE, then the CLI
UpdateOrder == <<"jar", "jre", "cli">>

\* the command lines of this specification
AllArgs == {"--all", ""}
Interactive(r) == r.item = ""

\* the tool is started with --all or without flags: every item is checked
RunStartAll ==
    /\ run.pc = "idle"
    /\ fs[Live].kind = "exe" /\ fs[Live].layout # "partial"
    /\ \E arg \in AllArgs :
          run' = [RunIdle EXCEPT !.pc = "allManifest", !.item = arg,
                                 !.launcher = fs[Live].ver, !.fsAtStart = fs]
    /\ runs' = runs + 1
    /\ UNCHANGED <<fs, dl, calls, win, cli, jre, jar, setup, call>>

\* paths.ensure_dirs()?; cleanup_old_binary(); load_merged_config()?;
\* Some(fetch_manifest().await?)
RunAllFetchManifest ==
    /\ run.pc = "allManifest"
    /\ \/ RunEnd("Err") /\ UNCHANGED fs
       \/ RunEnd("Err") /\ fs' = [fs EXCEPT ![Backup] = NoFile]
       \/ /\ fs' = [fs EXCEPT ![Backup] = NoFile]
          /\ \E m \in Manifests : run' = [run EXCEPT !.pc = "allCheckJar", !.manifest = m]
    /\ UNCHANGED <<dl, calls, win, cli, runs, jre, jar, setup, call>>

\* get_installed_jar_version: the version of the first karate-*.jar that
\* read_dir gives, in any order; None without one
InstalledJarVersions(fsys) ==
    IF InstalledJars(fsys) = {} THEN {NoVersion} ELSE InstalledJars(fsys)

\* if check_jar { .. }: has_update is installed != latest, true without an
\* installed JAR
RunAllCheckJar ==
    /\ run.pc = "allCheckJar"
    /\ \E jm \in JarManifests, installed \in InstalledJarVersions(fs) :
          LET latest == GetLatestJarVersion(jm) IN
          IF latest = NoVersion THEN RunEnd("Err")
          ELSE run' = [run EXCEPT !.pc = "allCheckJre",
                                  !.jarHasUpdate = HasUpdate(installed, latest)]
    /\ UNCHANGED <<fs, dl, calls, win, cli, runs, jre, jar, setup, call>>

\* get_installed_jre_version: the name of the first directory in paths.jre
GetInstalledJreVersion(dir) ==
    IF dir.state # "readable" THEN None
    ELSE LET dirs == SelectSeq(dir.entries, LAMBDA e : e.isDir) IN
         IF dirs = <<>> THEN None ELSE Some(dirs[1].name)

\* the version part of a label: label.split('-').next()
VersionPart(label) == SplitN2(label, "-")[1]

\* if check_jre { .. }: resolve_justj_jre(..).await?; has_update compares
\* the version parts
RunAllCheckJre ==
    /\ run.pc = "allCheckJre"
    /\ LET installed == GetInstalledJreVersion(jre.env.jreDir)
           latest == VersionPart(JustjVersionLabel(ManifestKey(jre.env.platform))) IN
       \/ RunEnd("Err")
       \/ run' = [run EXCEPT !.pc = "allCheckCli",
                             !.jreHasUpdate = IF installed = None THEN TRUE
                                              ELSE VersionPart(installed[1]) # latest]
    /\ UNCHANGED <<fs, dl, calls, win, cli, runs, jre, jar, setup, call>>

\* if check_cli { .. }
RunAllCheckCli ==
    /\ run.pc = "allCheckCli"
    /\ LET latest == GetLatestVersion(run.manifest) IN
       IF latest = NoVersion THEN RunEnd("Err")
       ELSE run' = [run EXCEPT !.pc = "allDecide", !.cliLatest = latest,
                               !.cliHasUpdate = HasUpdate(run.launcher, latest)]
    /\ UNCHANGED <<fs, dl, calls, win, cli, runs, jre, jar, setup, call>>

\* if !any_updates { return Ok(Success) }; if interactive, the answer to
\* "Update available components? [Y/n]"
RunAllDecide ==
    /\ run.pc = "allDecide"
    /\ IF ~(run.jarHasUpdate \/ run.jreHasUpdate \/ run.cliHasUpdate) THEN RunEnd("Success")
       ELSE IF Interactive(run)
       THEN \/ RunEnd("Err")
            \/ RunEnd("Success")
            \/ run' = [run EXCEPT !.pc = "allUpdate", !.step = 1]
       ELSE run' = [run EXCEPT !.pc = "allUpdate", !.step = 1]
    /\ UNCHANGED <<fs, dl, calls, win, cli, runs, jre, jar, setup, call>>

\* status.has_update of a component
Selected(r, c) ==
    CASE c = "jar" -> r.jarHasUpdate
      [] c = "jre" -> r.jreHasUpdate
      [] c = "cli" -> r.cliHasUpdate

\* if status.has_update { update_karate_jar / update_jre / update_cli_binary }
RunAllUpdate ==
    /\ run.pc = "allUpdate"
    /\ IF run.step > Len(UpdateOrder) THEN RunEnd("Success") /\ UNCHANGED <<jar, jre, cli>>
       ELSE LET c == UpdateOrder[run.step] IN
            IF ~Selected(run, c)
            THEN run' = [run EXCEPT !.step = @ + 1] /\ UNCHANGED <<jar, jre, cli>>
            ELSE /\ run' = [run EXCEPT !.pc = "allWait"]
                 /\ CASE c = "jar" -> JarEnter("update", NoVersion) /\ UNCHANGED <<jre, cli>>
                      [] c = "jre" -> UpdateJreEnter /\ UNCHANGED <<jar, cli>>
                      [] c = "cli" -> CliEnter(run.cliLatest) /\ UNCHANGED <<jar, jre>>
    /\ UNCHANGED <<fs, dl, calls, win, runs, setup, call>>

ComponentResult(c) ==
    CASE c = "jar" -> IF jar.pc = "done" THEN jar.result ELSE "none"
      [] c = "jre" -> IF jre.pc = "updDone" THEN jre.result ELSE "none"
      [] c = "cli" -> IF cli.pc = "done" THEN cli.result ELSE "none"

\* the `.await?` of the component's update: an error ends the run
RunAllReturned ==
    /\ run.pc = "allWait"
    /\ LET result == ComponentResult(UpdateOrder[run.step]) IN
       /\ result # "none"
       /\ IF result = "Ok" THEN run' = [run EXCEPT !.pc = "allUpdate", !.step = @ + 1]
          ELSE RunEnd("Err")
    /\ UNCHANGED <<fs, dl, calls, win, cli, runs, jre, jar, setup, call>>

RunAllStep ==
    \/ RunStartAll
    \/ RunAllFetchManifest
    \/ RunAllCheckJar
    \/ RunAllCheckJre
    \/ RunAllCheckCli
    \/ RunAllDecide
    \/ RunAllUpdate
    \/ RunAllReturned

\* the runtime directory before the update: absent, unreadable, or holding
\* an older runtime, the current one, or an older one and a stray file
OldRuntime ==
    [name |-> <<"1", "7", ".", "0", ".", "2", "-", "linux", "-", "x64">>, isDir |-> TRUE,
     java |-> [exists |-> TRUE, launch |-> TRUE, lines |-> <<Line21>>]]
CurrentRuntime ==
    [name |-> <<"2", "1", ".", "0", ".", "9", "-", "linux", "-", "x86_64">>, isDir |-> TRUE,
     java |-> [exists |-> TRUE, launch |-> TRUE, lines |-> <<Line21>>]]
StrayFile == [name |-> <<"tmp">>, isDir |-> FALSE, java |-> NoJava]
UpdateJreDirs ==
    {[state |-> "absent", entries |-> <<>>],
     [state |-> "unreadable", entries |-> <<OldRuntime>>],
     [state |-> "readable", entries |-> <<OldRuntime>>],
     [state |-> "readable", entries |-> <<CurrentRuntime>>],
     [state |-> "readable", entries |-> <<StrayFile, OldRuntime>>]}

\* an installed release, with or without a JAR and a managed runtime
InitUpdateAll ==
    /\ win \in BOOLEAN
    /\ \E v \in Versions, jars \in {{}, {1}} :
          fs = [p \in AllPaths |->
                  IF p = CurrentExe(win) THEN Exe(v)
                  ELSE IF \E j \in jars : p = DistJar(j) THEN File(PublishedData)
                  ELSE NoFile]
    /\ dl = [d \in DlIds |-> DlIdle]
    /\ calls = 0
    /\ run = RunIdle
    /\ cli = CliIdle
    /\ runs = 0
    /\ \E dir \in UpdateJreDirs : jre = [JreIdle EXCEPT !.env.jreDir = dir]
    /\ jar = JarIdle
    /\ setup = SetupIdle
    /\ call = NoCall

NextUpdateAll ==
    \/ RunAllStep
    \/ JarStep
    \/ UpdateJreStep
    \/ CliStep
    \/ DlStep(1)

SpecUpdateAll == InitUpdateAll /\ [][NextUpdateAll]_vars

(***************************************************************************)
(* Specification of download_file called on its own (as setup and update   *)
(* call it, one call after the other)                                      *)
(***************************************************************************)
DlCall(d) ==
    /\ dl[d].pc \in {"idle", "done"}
    /\ calls < MaxCalls
    /\ \E dest \in DlDests, expected \in ExpectedChoices : DlEnter(d, dest, expected, "direct")
    /\ calls' = calls + 1
    /\ UNCHANGED <<fs, win, run, cli, runs, jre, jar, setup, call>>

InitDownload ==
    /\ fs = [p \in AllPaths |-> NoFile]
    /\ dl = [d \in DlIds |-> DlIdle]
    /\ calls = 0
    /\ win = FALSE
    /\ run = RunIdle
    /\ cli = CliIdle
    /\ runs = 0
    /\ jre = JreIdle
    /\ jar = JarIdle
    /\ setup = SetupIdle
    /\ call = NoCall

NextDownload == DlCall(1) \/ DlStep(1)

SpecDownload == InitDownload /\ [][NextDownload]_vars

(***************************************************************************)
(* Specification of two download_file calls in flight at once, each to a   *)
(* destination of its own                                                  *)
(***************************************************************************)
InFlight(d) == dl[d].pc \notin {"idle", "done"}

PairCall(d) ==
    /\ dl[d].pc = "idle"
    /\ \E dest \in PairDests, expected \in ExpectedChoices :
          /\ \A e \in DlIds \ {d} : dl[e].pc # "idle" => dl[e].dest # dest
          /\ DlEnter(d, dest, expected,
                     IF \E e \in DlIds \ {d} : InFlight(e) THEN "concurrent" ELSE "alone")
    /\ UNCHANGED <<fs, calls, win, run, cli, runs, jre, jar, setup, call>>

NextPair == \E d \in DlIds : PairCall(d) \/ DlStep(d)

SpecPair == InitDownload /\ [][NextPair]_vars

(***************************************************************************)
(* Specification of two download_file calls in flight at once for the same *)
(* destination (two invocations of the CLI installing the same JAR)        *)
(***************************************************************************)
SharedDest == DistJar(1)

SameDestCall(d) ==
    /\ dl[d].pc = "idle"
    /\ \E expected \in {None, HexEncode(Sha256(PublishedData))} :
          DlEnter(d, SharedDest, expected, "concurrent")
    /\ UNCHANGED <<fs, calls, win, run, cli, runs, jre, jar, setup, call>>

NextSameDest == \E d \in DlIds : SameDestCall(d) \/ DlStep(d)

SpecSameDest == InitDownload /\ [][NextSameDest]_vars

(***************************************************************************)
(* Specification of the JAR installs: setup --karate-version <v> and       *)
(* update call them one after the other; the configuration pins a version *)
(* or none                                                                 *)
(***************************************************************************)
JarCall ==
    /\ jar.pc \in {"idle", "done"}
    /\ calls < MaxCalls
    /\ \/ \E override \in {NoVersion} \cup Versions : JarEnter("setup", override)
       \/ JarEnter("update", NoVersion)
    /\ calls' = calls + 1
    /\ UNCHANGED <<fs, dl, win, run, cli, runs, jre, setup, call>>

InitJar ==
    /\ fs = [p \in AllPaths |-> NoFile]
    /\ dl = [d \in DlIds |-> DlIdle]
    /\ calls = 0
    /\ win = FALSE
    /\ run = RunIdle
    /\ cli = CliIdle
    /\ runs = 0
    /\ jre = JreIdle
    /\ \E pin \in {DefaultVersion} \cup Versions : jar = [JarIdle EXCEPT !.pin = pin]
    /\ setup = SetupIdle
    /\ call = NoCall

NextJar == JarCall \/ JarStep \/ DlStep(1)

SpecJar == InitJar /\ [][NextJar]_vars

(***************************************************************************)
(* Specification of setup: one command line, run once and once more, on a  *)
(* machine without managed runtimes and with or without a system Java      *)
(***************************************************************************)
SetupEnvs ==
    [platform : {[os |-> "Linux", arch |-> "X64"]},
     jreDir : {[state |-> "absent", entries |-> <<>>]},
     javaHome : {[set |-> FALSE, java |-> NoJava],
                 [set |-> TRUE, java |-> [exists |-> TRUE, launch |-> TRUE, lines |-> <<Line21>>]],
                 [set |-> TRUE, java |-> [exists |-> TRUE, launch |-> TRUE, lines |-> <<Line17>>]]},
     path : {[found |-> FALSE, java |-> NoJava]}]

InitSetup ==
    /\ fs = [p \in AllPaths |-> NoFile]
    /\ dl = [d \in DlIds |-> DlIdle]
    /\ calls = 0
    /\ win = FALSE
    /\ run = RunIdle
    /\ cli = CliIdle
    /\ runs = 0
    /\ \E env \in SetupEnvs : jre = [JreIdle EXCEPT !.env = env]
    /\ \E pin \in {DefaultVersion, 1} : jar = [JarIdle EXCEPT !.pin = pin]
    /\ setup = SetupIdle
    /\ call = NoCall

NextSetup ==
    \/ SetupStep
    \/ JreListInstalled \/ JreNextManaged \/ JreFallBackToSystem
    \/ JarFetchManifest \/ JarResolveVersion \/ JarLookup \/ JarDownload \/ JarDownloaded
    \/ DlStep(1)

SpecSetup == InitSetup /\ [][NextSetup]_vars

(***************************************************************************)
(* Specification of find_active_jre on a machine in any of the states of   *)
(* JreEnvs                                                                 *)
(***************************************************************************)
InitJre ==
    /\ fs = [p \in AllPaths |-> NoFile]
    /\ dl = [d \in DlIds |-> DlIdle]
    /\ calls = 0
    /\ win = FALSE
    /\ run = RunIdle
    /\ cli = CliIdle
    /\ runs = 0
    /\ \E env \in JreEnvs : jre = [JreIdle EXCEPT !.env = env]
    /\ jar = JarIdle
    /\ setup = SetupIdle
    /\ call = NoCall

NextJre == FindActiveJre \/ JreListInstalled \/ JreNextManaged \/ JreFallBackToSystem

SpecJre == InitJre /\ [][NextJre]_vars

(***************************************************************************)
(* Two calls of find_active_jre on the same machine.  read_dir promises no *)
(* order: the second call may meet the same entries in another order.      *)
(***************************************************************************)
Orders(n) == {f \in [1..n -> 1..n] : \A i, j \in 1..n : i # j => f[i] # f[j]}
Reordered(l) == {[i \in 1..Len(l) |-> l[f[i]]] : f \in Orders(Len(l))}

FindActiveJreAgain ==
    /\ jre.pc = "done"
    /\ jre.call = 1
    /\ \E entries \in Reordered(jre.env.jreDir.entries) :
          jre' = [jre EXCEPT !.pc = "list", !.call = 2,
                             !.prev = [result |-> jre.result, found |-> jre.found],
                             !.result = "none", !.found = None, !.jres = <<>>, !.idx = 0,
                             !.env.jreDir.entries = entries]
    /\ UNCHANGED <<fs, dl, calls, win, run, cli, runs, jar, setup, call>>

NextJreTwice == NextJre \/ FindActiveJreAgain

SpecJreTwice == InitJre /\ [][NextJreTwice]_vars

(***************************************************************************)
(* Claims about download_file                                              *)
(***************************************************************************)
\* the comparison of section 4.4, step 5, stated independently of the code
SameDigest(a, b) == ToLowercase(a) = ToLowercase(b)
DigestOf(data) == HexEncode(Sha256(data))
Returned(d) == dl[d].pc = "done"

\* C1: during and after a call the destination is absent, or still holds the
\* complete content it had before the call, or holds the complete streamed
\* content (verified when a checksum was supplied); the temporary path the
\* bytes are written to is not the destination.
C1_DestNeverPartial ==
    \A d \in DlIds : dl[d].pc # "idle" =>
        /\ dl[d].temp # dl[d].dest
        /\ \/ fs[dl[d].dest] = NoFile
           \/ fs[dl[d].dest] = dl[d].pre
           \/ /\ fs[dl[d].dest] = File(dl[d].stream)
              /\ dl[d].complete
              /\ dl[d].expected # None => SameDigest(DigestOf(dl[d].stream), dl[d].expected)

\* a call in the middle of its stream onto a destination that held a file
C1_Witness ==
    \E d \in DlIds : /\ dl[d].pc = "stream" /\ dl[d].recv = 1 /\ Len(dl[d].stream) = 2
                     /\ dl[d].pre # NoFile /\ fs[dl[d].dest] = dl[d].pre
                     /\ fs[dl[d].temp] = File(<<dl[d].stream[1]>>)

MismatchReturned(d) ==
    /\ Returned(d)
    /\ dl[d].expected # None
    /\ dl[d].flushed
    /\ ~SameDigest(DigestOf(dl[d].hashed), dl[d].expected)

\* C2 as stated: on a digest mismatch the call fails and neither the
\* destination nor the temporary file exists afterward.
C2_Original ==
    \A d \in DlIds : MismatchReturned(d) =>
        /\ dl[d].result # "Ok"
        /\ fs[dl[d].dest] = NoFile
        /\ fs[dl[d].temp] = NoFile

\* C2 as amended: on a digest mismatch the call fails, the temporary file does
\* not exist, and the destination does not exist unless it existed before the
\* call (then it is the file it was).
C2_MismatchFailsAndCleans ==
    \A d \in DlIds : MismatchReturned(d) =>
        /\ dl[d].result = "ChecksumMismatch"
        /\ fs[dl[d].temp] = NoFile
        /\ dl[d].pre = NoFile => fs[dl[d].dest] = NoFile
        /\ dl[d].pre # NoFile => fs[dl[d].dest] # NoFile

C2_Witness ==
    \E d \in DlIds : MismatchReturned(d) /\ Len(dl[d].hashed) = 2 /\ dl[d].pre = NoFile

\* C3: a call that fails with a checksum mismatch leaves at the destination
\* exactly what was there before the call.
C3_MismatchLeavesDest ==
    \A d \in DlIds : (Returned(d) /\ dl[d].result = "ChecksumMismatch") =>
        fs[dl[d].dest] = dl[d].pre

C3_Witness ==
    \E d \in DlIds : /\ Returned(d) /\ dl[d].result = "ChecksumMismatch"
                     /\ dl[d].pre = File(PublishedData)
                     /\ dl[d].hashed # PublishedData

\* C4 as stated: without a checksum, once the response stream has completed
\* the returned call has left the whole stream at the destination and no
\* temporary file.
C4_Original ==
    \A d \in DlIds : (Returned(d) /\ dl[d].expected = None /\ dl[d].complete) =>
        /\ fs[dl[d].dest] = File(dl[d].stream)
        /\ fs[dl[d].temp] = NoFile

\* C4 as amended: without a checksum, a call that returns success has left at
\* the destination the received chunks in arrival order and no temporary file.
C4_SuccessPublishesStream ==
    \A d \in DlIds : (Returned(d) /\ dl[d].expected = None /\ dl[d].result = "Ok") =>
        /\ dl[d].complete
        /\ fs[dl[d].dest] = File(dl[d].stream)
        /\ fs[dl[d].temp] = NoFile

C4_Witness ==
    \E d \in DlIds : /\ Returned(d) /\ dl[d].expected = None /\ dl[d].result = "Ok"
                     /\ dl[d].stream = <<2, 1>> /\ dl[d].pre = File(<<1>>)

(***************************************************************************)
(* Claims about the self-update                                            *)
(***************************************************************************)
CliReturned == cli.pc = "done"
PreBackupSteps == {"lookup", "download", "rmstage", "extract", "locate", "resolve"}

\* C5 as stated: whenever update_cli_binary returns, with success or with any
\* error, a file exists at the live executable path.
C5_LivePresentAtReturn == CliReturned => fs[Live] # NoFile

\* C6 as stated: when the backup rename succeeded and both the rename and the
\* copy of the staged binary failed, the call returns an error with the
\* original binary at the live path and nothing at the backup path.
C6_RollbackRestoresOriginal ==
    (CliReturned /\ cli.backup = "ok" /\ cli.swapRename = "fail" /\ cli.swapCopy = "fail") =>
        /\ cli.result = "Err"
        /\ fs[Live] = cli.origLive
        /\ fs[Backup] = NoFile

\* C7: while update_cli_binary is at a step before BackupCurrent, and when it
\* has failed at one, the live executable is the file it was when the tool
\* started and no rename of it has been attempted.
C7_FailureBeforeBackupLeavesLive ==
    (cli.pc \in PreBackupSteps \/ (CliReturned /\ cli.failedAt \in PreBackupSteps)) =>
        /\ fs[Live] = cli.origLive
        /\ fs[Live] = run.fsAtStart[Live]
        /\ cli.backup = "n/a"

\* a second update attempt stopped by a staging directory it cannot remove
C7_Witness ==
    /\ CliReturned /\ cli.failedAt = "rmstage" /\ cli.result = "Err"
    /\ fs[ExtractDir(cli.version)] # NoFile
    /\ fs[Live] = Exe(run.launcher)

\* C8 as stated: update_cli_binary is entered only when the channel's latest
\* version is newer than the running build; otherwise the run ends with
\* success and the filesystem is as it was when the run started.
C8_UpdateOnlyWhenNewer ==
    /\ cli.pc # "idle" => run.cliLatest > run.launcher
    /\ (run.pc = "done" /\ run.cliLatest # NoVersion /\ ~(run.cliLatest > run.launcher)) =>
          (run.exit = "Success" /\ fs = run.fsAtStart)

\* the bytes the calls that have got a response may have put at position i
\* of a file: the i-th byte of one of their bodies, or the zero of a hole
BytesAt(i) ==
    {0} \cup {dl[d].stream[i] : d \in {e \in DlIds : dl[e].pc # "idle" /\ i <= Len(dl[e].stream)}}
MixOfBodies(f) ==
    f.kind = "file" => \A i \in 1..Len(f.data) : f.data[i] \in BytesAt(i)

\* C30: two download_file calls for the same destination are not excluded
\* from each other: they write through the same temporary path, each at its
\* own offset, so that the temporary file and the published destination hold
\* at each position a byte of either body, not necessarily the bytes one
\* call hashed.
C30_SharedTemporaryFile ==
    /\ \A d, e \in DlIds :
          (dl[d].pc # "idle" /\ dl[e].pc # "idle" /\ dl[d].dest = dl[e].dest) =>
              dl[d].temp = dl[e].temp
    /\ MixOfBodies(fs[TempPath(SharedDest)])
    /\ MixOfBodies(fs[SharedDest])

\* a call has verified the checksum of the bytes it hashed and reports
\* success, the other call has published nothing, and the destination holds
\* other bytes than the ones the call hashed
C30_Witness ==
    \E d \in DlIds : \E e \in DlIds \ {d} :
        /\ Returned(d) /\ dl[d].result = "Ok"
        /\ dl[d].expected # None
        /\ dl[e].pc # "idle" /\ dl[e].dest = dl[d].dest /\ dl[e].result # "Ok"
        /\ fs[dl[d].dest] # File(dl[d].hashed)

(***************************************************************************)
(* Claims about find_active_jre                                            *)
(***************************************************************************)
JreReturned == jre.pc = "done"
\* a managed runtime for the current platform whose executable exists and
\* whose probe launches
ValidManaged(env, e) ==
    /\ e.isDir /\ e.java.exists /\ e.java.launch
    /\ ParseJreDirName(e.name) # None
    /\ ParseJreDirName(e.name)[1].platform = ManifestKey(env.platform)
SomeValidManaged(env) ==
    \E i \in 1..Len(env.jreDir.entries) : ValidManaged(env, env.jreDir.entries[i])
\* a system executable that reports a major version of at least the minimum
Qualifies(java) ==
    /\ java.exists
    /\ ParseJavaVersion(java) # None
    /\ ParseJavaVersion(java)[1].major >= MinJavaVersion
JavaHomeQualifies(env) == env.javaHome.set /\ Qualifies(env.javaHome.java)
PathQualifies(env) == env.path.found /\ Qualifies(env.path.java)

\* C9: when the runtime directory can be listed and holds no valid managed
\* runtime for the current platform, the JAVA_HOME runtime does not meet the
\* minimum and the runtime on PATH does, the call returns the PATH runtime.
C9_PathTierReached ==
    (/\ JreReturned
     /\ jre.env.jreDir.state # "unreadable"
     /\ ~SomeValidManaged(jre.env)
     /\ ~JavaHomeQualifies(jre.env)
     /\ PathQualifies(jre.env)) =>
        (jre.result = "Some" /\ jre.found[1].source = "Path")

ValidJavaHome(env) ==
    env.javaHome.set /\ env.javaHome.java.exists /\ env.javaHome.java.launch

\* C10 as stated: whenever a valid managed runtime for the current platform
\* and a valid JAVA_HOME runtime both exist, the call returns an installation
\* whose source is Managed.
C10_Original ==
    (JreReturned /\ SomeValidManaged(jre.env) /\ ValidJavaHome(jre.env)) =>
        (jre.result = "Some" /\ jre.found[1].source = "Managed")

\* C10 as amended: whenever a valid managed runtime for the current platform
\* and a valid JAVA_HOME runtime both exist and the runtime directory can be
\* listed, the call returns an installation whose source is Managed, valid
\* and for the current platform.
C10_ManagedBeforeJavaHome ==
    (/\ JreReturned
     /\ jre.env.jreDir.state = "readable"
     /\ SomeValidManaged(jre.env)
     /\ ValidJavaHome(jre.env)) =>
        /\ jre.result = "Some"
        /\ jre.found[1].source = "Managed"
        /\ jre.found[1].platform = ManifestKey(jre.env.platform)
        /\ jre.found[1].java.launch

\* a managed Java 17 is returned although JAVA_HOME holds a working Java 21
C10_Witness ==
    /\ JreReturned
    /\ jre.env.jreDir.state = "readable"
    /\ SomeValidManaged(jre.env)
    /\ JavaHomeQualifies(jre.env)
    /\ jre.result = "Some"
    /\ jre.found[1].source = "Managed"
    /\ jre.found[1].major = Some(17)

\* C11: a candidate whose probe does not launch, or prints no parseable
\* version, is never returned, in any tier, and causes no error: a returned
\* installation has a probe that launches and prints a version with a major
\* number, and the call fails only when the runtime directory cannot be listed.
C11_InvalidProbeNeverReturned ==
    JreReturned =>
        /\ jre.result = "Some" =>
              (jre.found[1].java.launch /\ ParseJavaVersion(jre.found[1].java) # None)
        /\ jre.result = "Err" => jre.env.jreDir.state = "unreadable"

\* C12: a second call on the same filesystem and environment returns what
\* the first call returned, whatever the order in which the runtime
\* directory is iterated.
C12_SameResultTwice ==
    (JreReturned /\ jre.call = 2) =>
        (jre.result = jre.prev.result /\ jre.found = jre.prev.found)

\* C29: the minimum-version floor is applied exactly to system runtimes: a
\* returned installation with source JAVA_HOME or PATH has a known major
\* version of at least MIN_JAVA_VERSION, and the first listed managed runtime
\* for the current platform whose executable exists and launches is returned
\* whatever major version its directory name gives.
FirstValidManaged(env) ==
    LET es == env.jreDir.entries
        i == CHOOSE i \in 1..Len(es) :
                 /\ ValidManaged(env, es[i])
                 /\ \A k \in 1..(i - 1) : ~ValidManaged(env, es[k])
    IN es[i]
C29_FloorOnSystemOnly ==
    JreReturned =>
        /\ (jre.result = "Some" /\ jre.found[1].source \in {"JavaHome", "Path"}) =>
              (jre.found[1].major # None /\ jre.found[1].major[1] >= MinJavaVersion)
        /\ (jre.env.jreDir.state = "readable" /\ SomeValidManaged(jre.env)) =>
              /\ jre.result = "Some"
              /\ jre.found[1].source = "Managed"
              /\ jre.found[1].java = FirstValidManaged(jre.env).java
              /\ jre.found[1].version =
                    ParseJreDirName(FirstValidManaged(jre.env).name)[1].version

\* a managed runtime whose directory name gives no major version is returned
\* although JAVA_HOME holds a runtime that meets the minimum
C29_Witness ==
    /\ JreReturned
    /\ jre.result = "Some"
    /\ jre.found[1].source = "Managed"
    /\ jre.found[1].major = None
    /\ JavaHomeQualifies(jre.env)

\* a managed runtime of a major version below the minimum is returned
ManagedBelowFloorReturned ==
    /\ JreReturned
    /\ jre.result = "Some"
    /\ jre.found[1].source = "Managed"
    /\ jre.found[1].major # None
    /\ jre.found[1].major[1] < MinJavaVersion

(***************************************************************************)
(* Claims about the JAR installs                                           *)
(***************************************************************************)
JarReturned == jar.pc = "done"

\* C13: in both flows the version chosen for the JAR is the command-line
\* version if one is given, otherwise the pinned version if the configuration
\* pins one, otherwise the channel's latest version.
C13_OverrideWins ==
    jar.version # NoVersion =>
        jar.version = (IF jar.override # NoVersion THEN jar.override
                       ELSE IF jar.pin # DefaultVersion THEN jar.pin
                       ELSE jar.manifest.jarLatest)

\* C14: when update_karate_jar returns an error, every JAR that was in dist/
\* when it was called is still there, unchanged.
C14_FailedUpdateKeepsJars ==
    (JarReturned /\ jar.flow = "update" /\ jar.result = "Err") =>
        \A v \in Versions :
            jar.fsAtStart[DistJar(v)] # NoFile => fs[DistJar(v)] = jar.fsAtStart[DistJar(v)]

\* C16: a backup file left next to the executable by an earlier self-update
\* is removed by every later invocation of the tool, whatever the command:
\* when an invocation that started with a backup file and ran no self-update
\* of its own has ended, the backup file does not exist.
C16_BackupRemovedByNextInvocation ==
    (run.pc = "done" /\ run.fsAtStart[Backup] # NoFile /\ cli.pc = "idle") =>
        fs[Backup] = NoFile

\* the version the command line and the configuration ask for: the CLI
\* flag, else the pinned version, else the channel's latest
RequestedJarVersion ==
    IF jar.override # NoVersion THEN jar.override
    ELSE IF jar.pin # DefaultVersion THEN jar.pin
    ELSE GetLatestJarVersion(jar.manifest)

\* C17: when the fetched manifest has no download entry for the requested
\* JAR version, the operation fails with an error that names that version,
\* issues no request besides the manifest fetch, and changes no file.
C17_MissingEntryIsAnError ==
    (/\ JarReturned
     /\ jar.failedAt \notin {"config", "fetch"}
     /\ RequestedJarVersion # NoVersion
     /\ GetJarDownload(jar.manifest, RequestedJarVersion) = None) =>
        /\ jar.result = "Err"
        /\ jar.error.kind = "NoDownload"
        /\ jar.error.version = RequestedJarVersion
        /\ jar.requests = 1
        /\ fs = jar.fsAtStart

\* the same statement about the version the operation itself resolved
MissingEntryForResolvedVersion ==
    (/\ JarReturned
     /\ jar.version # NoVersion
     /\ GetJarDownload(jar.manifest, jar.version) = None) =>
        /\ jar.result = "Err"
        /\ jar.error.kind = "NoDownload"
        /\ jar.error.version = jar.version
        /\ jar.requests = 1
        /\ fs = jar.fsAtStart

\* C18: after download_file has returned with an error, whatever the step
\* that failed, no file exists at its temporary path.
C18_NoTempAfterFailure ==
    \A d \in DlIds : (Returned(d) /\ dl[d].result # "Ok") =>
        fs[TempPath(dl[d].dest)] = NoFile

\* the other half of the sentence: after update_cli_binary has returned, with
\* success or with an error, its staging directory does not exist
NoStagingAfterReturn == CliReturned => fs[ExtractDir(cli.version)] = NoFile

\* C20: when update_cli_binary has returned with success, the downloaded
\* archive and the staging directory do not exist; where a running executable
\* is not locked the backup file does not exist either, and where it is
\* locked the backup file is present and is the binary that was replaced.
C20_SuccessfulUpdateCleansUp ==
    (CliReturned /\ cli.result = "Ok") =>
        /\ fs[CliArchive(cli.version, win)] = NoFile
        /\ fs[ExtractDir(cli.version)] = NoFile
        /\ ~win => fs[Backup] = NoFile
        /\ win => (fs[Backup] # NoFile /\ fs[Backup] = cli.origLive)

\* a self-update succeeded on the platform that locks running executables:
\* the new binary is live and the replaced one is kept as the backup
C20_Witness ==
    /\ CliReturned /\ cli.result = "Ok" /\ win
    /\ fs[Live] = Exe(cli.version)
    /\ fs[Backup] = Exe(run.launcher)
    /\ fs[CliArchive(cli.version, win)] = NoFile

\* the path without its last extension
StemOf(p) == [p EXCEPT !.ext = ""]
OwnBytesAtDest(d) ==
    (Returned(d) /\ dl[d].result = "Ok") =>
        /\ fs[dl[d].dest] = File(dl[d].stream)
        /\ dl[d].complete
        /\ dl[d].expected # None => SameDigest(DigestOf(dl[d].stream), dl[d].expected)

DistinctStemsDoNotInterfere ==
    \A d, e \in DlIds :
        (d # e /\ dl[d].pc # "idle" /\ dl[e].pc # "idle"
               /\ StemOf(dl[d].dest) # StemOf(dl[e].dest)) =>
            (dl[d].temp # dl[e].temp /\ OwnBytesAtDest(d))

\* the second call was made while the first was in flight, and both have
\* succeeded with different bodies
DistinctStemsBothSucceed ==
    /\ Returned(1) /\ dl[1].result = "Ok"
    /\ Returned(2) /\ dl[2].result = "Ok" /\ dl[2].caller = "concurrent"
    /\ StemOf(dl[1].dest) # StemOf(dl[2].dest)
    /\ dl[1].stream # dl[2].stream /\ dl[1].stream # <<>> /\ dl[2].stream # <<>>
    /\ fs[dl[1].dest] = File(dl[1].stream)
    /\ fs[dl[2].dest] = File(dl[2].stream)

\* the order of the steps of update_cli_binary: ResolveLatest (lookup),
\* Download, ExtractToStaging (the stale staging directory is removed first),
\* LocateNewBinary, BackupCurrent (after the live path was resolved), SwapIn,
\* then Cleanup (after the permissions were set) or Rollback
StepOrder ==
    {<<"idle", "lookup">>, <<"lookup", "download">>, <<"download", "rmstage">>,
     <<"rmstage", "extract">>, <<"extract", "locate">>, <<"locate", "resolve">>,
     <<"resolve", "backup">>, <<"backup", "swap">>, <<"swap", "perms">>,
     <<"swap", "rollback">>, <<"perms", "cleanup">>, <<"cleanup", "done">>,
     <<"rollback", "done">>, <<"done", "idle">>}
\* the steps that can fail and end the call
FailingSteps == {"lookup", "download", "rmstage", "extract", "locate", "resolve", "backup", "perms"}

\* C26: the steps of the self-update occur only in the order ResolveLatest,
\* Download (checksum verified), ExtractToStaging, LocateNewBinary,
\* BackupCurrent, SwapIn, Cleanup; a step is left for the next one or, on
\* failure, for the return; when BackupCurrent is reached the verified
\* archive, the staging directory and the located binary are there; Rollback
\* is entered only from a SwapIn whose rename and copy both failed, and ends
\* the call with an error.
C26_StepOrder ==
    [][/\ cli'.pc # cli.pc =>
            \/ <<cli.pc, cli'.pc>> \in StepOrder
            \/ cli.pc \in FailingSteps /\ cli'.pc = "done" /\ cli'.result = "Err"
       /\ cli'.pc = "backup" =>
            /\ cli'.sha # None
            /\ fs'[CliArchive(cli'.version, win')].kind = "file"
            /\ SameDigest(DigestOf(fs'[CliArchive(cli'.version, win')].data), cli'.sha)
            /\ fs'[ExtractDir(cli'.version)].kind = "dir"
            /\ cli'.newBinary # "none"
            /\ cli'.backup = "n/a"
       /\ (fs'[Backup] # fs[Backup] /\ fs'[Backup] # NoFile) => cli.pc = "backup"
       /\ cli'.pc = "rollback" =>
            (cli.pc \in {"swap", "rollback"} /\ cli'.backup = "ok"
             /\ cli'.swapRename = "fail" /\ cli'.swapCopy = "fail")
       /\ cli.pc = "rollback" => cli'.pc \in {"rollback", "done"}
       /\ (cli.pc = "rollback" /\ cli'.pc = "done") => cli'.result = "Err"
      ]_vars

\* a self-update whose SwapIn failed has rolled back and returned
C26_Witness ==
    /\ CliReturned /\ cli.result = "Err" /\ cli.failedAt = "swap"
    /\ cli.backup = "ok" /\ cli.rollback = "ok"
    /\ fs[Live] = cli.origLive

(***************************************************************************)
(* Claims about an update of several components                            *)
(***************************************************************************)
UpdateJreReturned == jre.pc = "updDone"
JarUpdateDone == jar.pc = "done" /\ jar.result = "Ok"
JreUpdateDone == UpdateJreReturned /\ jre.result = "Ok"
JarUpdateFailed == jar.pc = "done" /\ jar.result = "Err"
JreUpdateFailed == UpdateJreReturned /\ jre.result = "Err"
LiveUntouched == fs[Live] = run.fsAtStart[Live] /\ fs[Backup] = NoFile

\* C27: in a run that updates several components the CLI binary is replaced
\* last: update_cli_binary has started only if the JAR update and the JRE
\* update selected in the run have returned successfully, and when one of
\* them failed the run ends with an error, update_cli_binary is never
\* started and the live executable is neither renamed nor replaced.
C27_CliBinaryLast ==
    /\ cli.pc # "idle" =>
          /\ run.jarHasUpdate => JarUpdateDone
          /\ run.jreHasUpdate => JreUpdateDone
    /\ (JarUpdateFailed \/ JreUpdateFailed) => (cli.pc = "idle" /\ LiveUntouched)
    /\ (run.pc = "done" /\ (JarUpdateFailed \/ JreUpdateFailed)) => run.exit = "Err"

\* all three components were selected, the JAR and the JRE were updated and
\* then the executable was replaced by the new release
C27_Witness ==
    /\ run.pc = "done" /\ run.exit = "Success"
    /\ run.jarHasUpdate /\ run.jreHasUpdate /\ run.cliHasUpdate
    /\ JarUpdateDone /\ JreUpdateDone
    /\ cli.pc = "done" /\ cli.result = "Ok"
    /\ fs[Live] = Exe(run.cliLatest)
    /\ fs[Live] # run.fsAtStart[Live]

\* the JRE update failed after a successful JAR update: the run ended with an
\* error and the executable was left alone
JreFailureSkipsCli ==
    /\ run.pc = "done" /\ run.exit = "Err"
    /\ run.cliHasUpdate /\ JarUpdateDone /\ JreUpdateFailed
    /\ cli.pc = "idle" /\ LiveUntouched

\* the managed runtime directories installed before update_jre was called
\* are still there, unchanged
OldRuntimesKept ==
    \A i \in 1..Len(jre.old) :
        jre.old[i].isDir =>
            \E j \in 1..Len(jre.env.jreDir.entries) : jre.env.jreDir.entries[j] = jre.old[i]

\* C28: the update of the managed JRE is atomic with respect to failure: when
\* update_jre fails at any step, the extraction included, the runtime
\* directories installed before the update are still present and unchanged.
C28_JreUpdateAtomic == JreUpdateFailed => OldRuntimesKept

\* the extraction failed: the old runtime is gone and the directory of the new
\* one holds no java executable
ExtractionFailureLosesOldRuntime ==
    /\ JreUpdateFailed
    /\ jre.old = <<OldRuntime>>
    /\ jre.env.jreDir.entries =
          <<[name |-> JustjVersionLabel(ManifestKey(jre.env.platform)), isDir |-> TRUE,
             java |-> NoJava]>>

(***************************************************************************)
(* Claims about setup                                                      *)
(***************************************************************************)
\* the second run of a command line without --force whose first run completed
SecondSetupRun ==
    setup.invocation = 2 /\ setup.firstExit = "Success" /\ ~setup.force
\* the JAR the command line asks for was in dist/ when the run started
JarTargetExists ==
    IF setup.override # NoVersion THEN setup.fsAtStart[DistJar(setup.override)] # NoFile
    ELSE \E v \in Versions : setup.fsAtStart[DistJar(v)] # NoFile
\* the run's call of find_active_jre has selected a runtime
JreTargetSelected ==
    /\ setup.pc \notin {"dirs", "jre", "findJre"}
    /\ jre.pc = "done" /\ jre.result = "Some"

\* C15: in the second of two runs of setup with the same arguments and
\* without --force, when the first run completed and the artifacts asked for
\* exist (the JAR in dist/, a runtime that find_active_jre selects), no
\* manifest is fetched, no download is started and no installed file changes.
C15_SecondSetupIsNoOp ==
    (/\ SecondSetupRun
     /\ "jar" \in setup.items => JarTargetExists
     /\ "jre" \in setup.items => JreTargetSelected) =>
        /\ setup.requests = 0
        /\ ~setup.jarCalled
        /\ dl[1].pc = "idle"
        /\ fs = setup.fsAtStart
        /\ jre.env.jreDir = setup.jreDirAtStart

\* the second run of `setup --all` ends after it found the managed runtime
\* and the JAR that the first run installed
C15_Witness ==
    /\ SecondSetupRun
    /\ setup.pc = "done" /\ setup.exit = "Success"
    /\ setup.items = {"jre", "jar"}
    /\ JreTargetSelected /\ jre.found[1].source = "Managed"
    /\ JarTargetExists
    /\ setup.requests = 0

(***************************************************************************)
(* Pure functions: exit codes (error.rs), version and directory-name       *)
(* parsing (jre.rs), configuration merge (config.rs).  An input is drawn   *)
(* in the initial state and the function is applied to it by one action.   *)
(***************************************************************************)
\* i32::MAX and i32::MIN
I32Max == 2147483647
I32Min == -I32Max - 1

\* 100 + code.abs().min(155)
PassthroughBase == 100
PassthroughCap == 155
MaxCode == 20

MinOf(a, b) == IF a < b THEN a ELSE b
Value(n) == [panic |-> FALSE, value |-> n]
Panic == [panic |-> TRUE, value |-> 0]

\* i32::abs: the negation of i32::MIN overflows; a build with overflow checks
\* panics, a build without them wraps to i32::MIN
AbsI32(code, overflowChecks) ==
    IF code >= 0 THEN Value(code)
    ELSE IF code = I32Min THEN (IF overflowChecks THEN Panic ELSE Value(I32Min))
    ELSE Value(-code)

\* a + b in i32: a sum outside the range panics in a build with overflow
\* checks and wraps around (modulo 2^32) in a build without them
AddI32(a, b, overflowChecks) ==
    IF a >= 0 /\ b > I32Max - a
    THEN (IF overflowChecks THEN Panic ELSE Value((a - I32Max - 1) + (b - I32Max - 1)))
    ELSE IF a < 0 /\ b < I32Min - a
    THEN (IF overflowChecks THEN Panic ELSE Value((a - I32Min) + (b - I32Min)))
    ELSE Value(a + b)

\* ExitCode::jvm_passthrough
JvmPassthrough(code, overflowChecks) ==
    IF code = 0 THEN Value(0)
    ELSE LET a == AbsI32(code, overflowChecks) IN
         IF a.panic THEN Panic
         ELSE AddI32(PassthroughBase, MinOf(a.value, PassthroughCap), overflowChecks)

\* status.code().unwrap_or(1) of a process that did not succeed: small codes,
\* the codes around the cap, and the ends of the i32 range
ExitCodeInputs ==
    (-MaxCode .. MaxCode)
        \cup {-(PassthroughCap + 1), -PassthroughCap, PassthroughCap, PassthroughCap + 1}
        \cup {I32Min, I32Min + 1, I32Max - 1, I32Max}

JvmPassthroughInputs ==
    [fn : {"jvm_passthrough"}, code : ExitCodeInputs, overflowChecks : BOOLEAN,
     applied : {FALSE}, result : {Value(0)}]

JvmPassthroughApply ==
    /\ call.fn = "jvm_passthrough" /\ ~call.applied
    /\ call' = [call EXCEPT !.applied = TRUE,
                            !.result = JvmPassthrough(call.code, call.overflowChecks)]
    /\ UNCHANGED <<fs, dl, calls, win, run, cli, runs, jre, jar, setup>>

\* enum ExitCode, `code as i32`
ExitCodeValue(code) ==
    CASE code = "Success" -> 0
      [] code = "GeneralError" -> 1
      [] code = "ConfigError" -> 2
      [] code = "NetworkError" -> 3
      [] code = "JreError" -> 4
ExitCodes == {"Success", "GeneralError", "ConfigError", "NetworkError", "JreError"}

\* enum KarateError; "anyhow" is an error that is no KarateError (anyhow!,
\* bail!, a converted io or reqwest error)
KarateErrors ==
    {"NotBootstrapped", "Config", "Network", "Jre", "JarNotFound", "PluginNotFound",
     "DownloadFailed", "ChecksumMismatch", "UnsupportedPlatform", "Io", "Other"}
PropagatedErrors == KarateErrors \cup {"anyhow"}

\* KarateError::exit_code
ExitCodeOfKind(kind) ==
    IF kind \in {"NotBootstrapped", "Config"} THEN "ConfigError"
    ELSE IF kind \in {"Network", "DownloadFailed"} THEN "NetworkError"
    ELSE IF kind = "Jre" THEN "JreError"
    ELSE "GeneralError"

\* main::run: match result { Ok(code) => code, Err(e) => { eprintln!(..);
\* ExitCode::GeneralError } }
MainExit(result) ==
    IF result.ok THEN result.code ELSE "GeneralError"

\* what a command returns to main::run
CommandResults ==
    [ok : {TRUE}, code : ExitCodes, error : {"none"}]
        \cup [ok : {FALSE}, code : {"Success"}, error : PropagatedErrors]

MainRunInputs ==
    [fn : {"main_run"}, result : CommandResults, applied : {FALSE}, exit : {0}]

\* std::process::exit(exit_code.into())
MainRunApply ==
    /\ call.fn = "main_run" /\ ~call.applied
    /\ call' = [call EXCEPT !.applied = TRUE, !.exit = ExitCodeValue(MainExit(call.result))]
    /\ UNCHANGED <<fs, dl, calls, win, run, cli, runs, jre, jar, setup>>

\* the characters of a version string between the quotes of `java -version`
MaxVerLen == 4
VersionTokens == {"0", "1", "2", "8", "9", ".", "+", "ea"}
VersionStrings == SeqsUpTo(VersionTokens, MaxVerLen)

\* the first line `java -version` prints for a version string
VersionLine(version) == <<"openjdk version ", "\"">> \o version \o <<"\"", " 2023-10-17">>
ProbeOf(version) == [exists |-> TRUE, launch |-> TRUE, lines |-> <<VersionLine(version)>>]

ParseMajorVersionInputs ==
    [fn : {"parse_major_version"}, version : VersionStrings, applied : {FALSE},
     major : {None}, home : {None}, path : {None}]

\* parse_major_version(&version), and the JAVA_HOME and PATH candidates whose
\* java prints that version (check_java_home, check_java_on_path)
ParseMajorVersionApply ==
    /\ call.fn = "parse_major_version" /\ ~call.applied
    /\ call' = [call EXCEPT
                  !.applied = TRUE,
                  !.major = ParseMajorVersion(call.version),
                  !.home = CheckJavaHome([set |-> TRUE, java |-> ProbeOf(call.version)],
                                         [os |-> "Linux", arch |-> "X64"]),
                  !.path = CheckJavaOnPath([found |-> TRUE, java |-> ProbeOf(call.version)],
                                           [os |-> "Linux", arch |-> "X64"])]
    /\ UNCHANGED <<fs, dl, calls, win, run, cli, runs, jre, jar, setup>>

\* enum Os x enum Arch
SupportedPlatforms == [os : {"MacOS", "Linux", "Windows"}, arch : {"X64", "Aarch64"}]
\* the version part of a runtime directory name
DirVersionTokens == {"2", "1", ".", "-", "ea"}
DirVersions == SeqsUpTo(DirVersionTokens, MaxVerLen)
\* <v>-<vendor label of P> as download_jre names the directory after the
\* JustJ file, <v>-<canonical key of P> as jre_dir_name builds it, and a name
\* that is the version alone
DirName(version, platform, label) ==
    IF label = "vendor" THEN version \o <<"-">> \o ToJustjPlatform(ManifestKey(platform))
    ELSE IF label = "canonical" THEN version \o <<"-">> \o ManifestKey(platform)
    ELSE version

ParseJreDirNameInputs ==
    [fn : {"parse_jre_dir_name"}, version : DirVersions, platform : SupportedPlatforms,
     label : {"vendor", "canonical", "alone"}, applied : {FALSE}, parsed : {None}]

ParseJreDirNameApply ==
    /\ call.fn = "parse_jre_dir_name" /\ ~call.applied
    /\ call' = [call EXCEPT
                  !.applied = TRUE,
                  !.parsed = ParseJreDirName(DirName(call.version, call.platform, call.label))]
    /\ UNCHANGED <<fs, dl, calls, win, run, cli, runs, jre, jar, setup>>

\* a key a config file does not set; for an Option field an absent key and
\* null are the same, None
Unset == "unset"
UnsetOf(k) == IF k \in {"jre_path", "dist_path", "jvm_opts"} THEN None ELSE Unset
\* default_channel(), default_version(), default_check_updates(); the
\* Option fields default to None
DefaultConfig ==
    [channel |-> "stable", karate_version |-> "latest", jre_path |-> None,
     dist_path |-> None, jvm_opts |-> None, check_updates |-> "true"]
Settings == DOMAIN DefaultConfig

\* the JSON object of a config file: every key is absent or has a value
ConfigObjects ==
    [channel : {Unset, "stable", "beta"},
     karate_version : {Unset, "latest", "1.5.0"},
     jre_path : {None, Some("/opt/jre"), Some("/custom/jre")},
     dist_path : {None, Some("/custom/dist")},
     jvm_opts : {None, Some("-Xmx1g")},
     check_updates : {Unset, "true", "false"}]
NoObject == [k \in Settings |-> UnsetOf(k)]
\* a config file: not there, not parseable, or a JSON object
ConfigFiles ==
    {[state |-> "absent", keys |-> NoObject], [state |-> "invalid", keys |-> NoObject]}
        \cup [state : {"valid"}, keys : ConfigObjects]

\* serde_json::from_str with #[serde(default = ..)]: an absent key gets the
\* default value (None for an Option field)
Deserialize(keys) ==
    [k \in Settings |-> IF keys[k] = UnsetOf(k) THEN DefaultConfig[k] ELSE keys[k]]

\* Config::load_from_file
LoadFromFile(file) ==
    IF file.state = "absent" THEN [ok |-> TRUE, config |-> DefaultConfig]
    ELSE IF file.state = "invalid" THEN [ok |-> FALSE, config |-> DefaultConfig]
    ELSE [ok |-> TRUE, config |-> Deserialize(file.keys)]

\* Config::merge
Merge(self, other) ==
    [channel |-> IF other.channel # DefaultConfig.channel THEN other.channel ELSE self.channel,
     karate_version |-> IF other.karate_version # DefaultConfig.karate_version
                        THEN other.karate_version ELSE self.karate_version,
     jre_path |-> IF other.jre_path # None THEN other.jre_path ELSE self.jre_path,
     dist_path |-> IF other.dist_path # None THEN other.dist_path ELSE self.dist_path,
     jvm_opts |-> IF other.jvm_opts # None THEN other.jvm_opts ELSE self.jvm_opts,
     check_updates |-> IF other.check_updates = "false" THEN "false"
                       ELSE self.check_updates]

\* load_merged_config
LoadMergedConfig(global, project) ==
    LET g == LoadFromFile(global) IN
    IF ~g.ok THEN [ok |-> FALSE, config |-> DefaultConfig]
    ELSE LET merged == Merge(DefaultConfig, g.config) IN
         IF project.state = "absent" THEN [ok |-> TRUE, config |-> merged]
         ELSE LET l == LoadFromFile(project) IN
              IF ~l.ok THEN [ok |-> FALSE, config |-> DefaultConfig]
              ELSE [ok |-> TRUE, config |-> Merge(merged, l.config)]

LoadMergedConfigInputs ==
    [fn : {"load_merged_config"}, global : ConfigFiles, project : ConfigFiles,
     applied : {FALSE}, loaded : {[ok |-> FALSE, config |-> DefaultConfig]}]

LoadMergedConfigApply ==
    /\ call.fn = "load_merged_config" /\ ~call.applied
    /\ call' = [call EXCEPT !.applied = TRUE,
                            !.loaded = LoadMergedConfig(call.global, call.project)]
    /\ UNCHANGED <<fs, dl, calls, win, run, cli, runs, jre, jar, setup>>

(***************************************************************************)
(* Specification of the pure functions                                     *)
(***************************************************************************)
PureInputs ==
    JvmPassthroughInputs \cup MainRunInputs \cup ParseMajorVersionInputs
        \cup ParseJreDirNameInputs \cup LoadMergedConfigInputs

InitPure ==
    /\ fs = [p \in AllPaths |-> NoFile]
    /\ dl = [d \in DlIds |-> DlIdle]
    /\ calls = 0
    /\ win = FALSE
    /\ run = RunIdle
    /\ cli = CliIdle
    /\ runs = 0
    /\ jre = JreIdle
    /\ jar = JarIdle
    /\ setup = SetupIdle
    /\ call \in PureInputs

NextPure ==
    \/ JvmPassthroughApply
    \/ MainRunApply
    \/ ParseMajorVersionApply
    \/ ParseJreDirNameApply
    \/ LoadMergedConfigApply

SpecPure == InitPure /\ [][NextPure]_vars

\* C21: jvm_passthrough(c) is 0 for c = 0 and 100 + min(|c|, 155) for every
\* other 32-bit signed c, the most negative one included: the call returns
\* (it does not panic) and a non-zero c maps into 101..255.
C21_PassthroughRange ==
    (call.fn = "jvm_passthrough" /\ call.applied) =>
        /\ ~call.result.panic
        /\ call.result.value =
              (IF call.code = 0 THEN 0
               ELSE IF call.code >= PassthroughCap \/ call.code <= -PassthroughCap
               THEN PassthroughBase + PassthroughCap
               ELSE PassthroughBase + (IF call.code < 0 THEN -call.code ELSE call.code))
        /\ call.code # 0 => call.result.value \in 101..255

\* C22: when a command fails with an error the process exit code is the
\* taxonomy code of the error's kind (2 for not bootstrapped and configuration
\* errors, 3 for network and download failures, 4 for JRE errors, 1 for the
\* rest), and never 0.
C22_ExitCodeOfErrorKind ==
    (call.fn = "main_run" /\ call.applied /\ ~call.result.ok) =>
        /\ call.exit # 0
        /\ call.exit =
              (IF call.result.error \in {"NotBootstrapped", "Config"} THEN 2
               ELSE IF call.result.error \in {"Network", "DownloadFailed"} THEN 3
               ELSE IF call.result.error = "Jre" THEN 4
               ELSE 1)

\* the part of the sentence that holds: a propagated error never ends in 0
PropagatedErrorIsNonZero ==
    (call.fn = "main_run" /\ call.applied /\ ~call.result.ok) => call.exit # 0

\* a decimal numeral: one or more digits
IsNumeral(c) == c # <<>> /\ \A i \in 1..Len(c) : IsDigit(c[i])
\* a decimal numeral that may be preceded by a '+' sign
IsSignedNumeral(c) == IsNumeral(c) \/ (c # <<>> /\ c[1] = "+" /\ IsNumeral(Tail(c)))
NumeralValue(c) == DecimalValue(IF c[1] = "+" THEN Tail(c) ELSE c)
\* the value of a component that is a numeral (by the test given) in 0..255
ComponentValue(c, Numeral(_)) ==
    IF Numeral(c) /\ NumeralValue(c) <= MaxU8 THEN Some(NumeralValue(c)) ELSE None
\* the major version the sentence gives: the second component after a leading
\* 1, else the first component
ExpectedMajor(version, Numeral(_)) ==
    LET parts == Split(version, ".")
        first == ComponentValue(parts[1], Numeral) IN
    IF first = Some(1)
    THEN (IF Len(parts) >= 2 THEN ComponentValue(parts[2], Numeral) ELSE None)
    ELSE first
ParsedMajorVersion == call.fn = "parse_major_version" /\ call.applied
CandidateRejectedWithoutMajor ==
    call.major = None => (call.home = None /\ call.path = None)

\* C23 as stated: the component used must be a decimal numeral in 0..255,
\* otherwise there is no major version.
C23_Original ==
    ParsedMajorVersion =>
        (call.major = ExpectedMajor(call.version, IsNumeral) /\ CandidateRejectedWithoutMajor)

\* C23: the major version is the second dot-separated component when the
\* first one has the value 1, else the first component, where a component
\* counts when it is a decimal numeral in 0..255 optionally preceded by '+';
\* when the component used is missing or is no such numeral there is no major
\* version, and a JAVA_HOME or PATH candidate printing that version is
\* rejected.
C23_MajorVersion ==
    ParsedMajorVersion =>
        (call.major = ExpectedMajor(call.version, IsSignedNumeral)
         /\ CandidateRejectedWithoutMajor)

\* the legacy form "1.8" has been parsed to 8 and the candidate is accepted
C23_Witness ==
    /\ ParsedMajorVersion
    /\ call.version = <<"1", ".", "8">>
    /\ call.major = Some(8)
    /\ call.home # None

ParsedDirName == call.fn = "parse_jre_dir_name" /\ call.applied
HasDash(str) == \E i \in 1..Len(str) : str[i] = "-"
\* <v>-<label of P> parses back to (v, canonical key of P)
ParsesBack ==
    call.label \in {"vendor", "canonical"} =>
        call.parsed = Some([version |-> call.version, platform |-> ManifestKey(call.platform)])
\* a name without '-' is no runtime entry
NoDashNoEntry ==
    (call.label = "alone" /\ ~HasDash(call.version)) => call.parsed = None

\* C24 as stated: for every supported platform P and every version v, both
\* <v>-<vendor label of P> and <v>-<canonical key of P> parse back to exactly
\* (v, canonical key of P); a name without '-' is no runtime entry.
C24_Original == ParsedDirName => (ParsesBack /\ NoDashNoEntry)

\* C24: for every supported platform P and every version v that contains no
\* '-', both <v>-<vendor label of P> and <v>-<canonical key of P> parse back
\* to exactly (v, canonical key of P); a name without '-' is no runtime
\* entry; a name with '-' is split at its first '-'.
C24_DirNameRoundTrip ==
    ParsedDirName =>
        /\ ~HasDash(call.version) => ParsesBack
        /\ NoDashNoEntry
        /\ call.parsed # None =>
              (~HasDash(call.parsed[1].version)
               /\ \E n \in 0..Len(call.version) :
                     call.parsed[1].version = SubSeq(call.version, 1, n))

\* 21-macosx-aarch64 has been parsed to ("21", macos-aarch64)
C24_Witness ==
    /\ ParsedDirName
    /\ call.version = <<"2", "1">> /\ call.label = "vendor"
    /\ call.platform = [os |-> "MacOS", arch |-> "Aarch64"]
    /\ call.parsed = Some([version |-> <<"2", "1">>, platform |-> <<"macos", "-", "aarch64">>])

\* the value of the highest-precedence source that sets the key: project
\* config, else global config, else the default
Precedence(global, project, k) ==
    IF project.keys[k] # UnsetOf(k) THEN project.keys[k]
    ELSE IF global.keys[k] # UnsetOf(k) THEN global.keys[k]
    ELSE DefaultConfig[k]

\* C25: load_merged_config gives every setting the value of the
\* highest-precedence source that sets it (project over global over
\* defaults), whatever the values in the two files.
C25_MergePrecedence ==
    (call.fn = "load_merged_config" /\ call.applied /\ call.loaded.ok) =>
        \A k \in Settings : call.loaded.config[k] = Precedence(call.global, call.project, k)

====
